---- MODULE Spec2Model ----
(***************************************************************************)
(* Transport core of the tr-messenger desktop application.                 *)
(*                                                                         *)
(* The module models                                                       *)
(*   - NetworkManager (src-tauri/src/network.rs): the session manager, its *)
(*     bounded mpsc channel and its statistics,                            *)
(*   - TcpServer: the accept loop and the per-client read loops it spawns, *)
(*   - TcpClient: the outbound socket opened by connect_to_server,         *)
(*   - the wire protocol of src-tauri/src/protocol.rs at byte level,       *)
(*   - the Tauri commands of src-tauri/src/commands/*.rs acting on the     *)
(*     shared AppState (src-tauri/src/lib.rs),                             *)
(*   - the encryption engine, secure messages and key exchange of          *)
(*     src-tauri/src/encryption.rs, the external crates by their contract, *)
(*   - HeartbeatHandler (protocol.rs) and the UDP discovery service of     *)
(*     src-tauri/src/discovery.rs.                                         *)
(*                                                                         *)
(* The specifications share the variables:                                 *)
(*   SpecNM   callers use one NetworkManager directly (the library API),   *)
(*   SpecE2E  the same with two managers, a server and a client,           *)
(*   SpecSrv  one manager run as a server, and its peers,                  *)
(*   Spec     the Tauri commands act on AppState.network_manager.          *)
(* Remote peers (any TCP client) and the spawned tasks are part of each.   *)
(* The specifications of single objects and pure functions (SpecHdr,       *)
(* SpecPM, SpecFlags, SpecSM, SpecFB, SpecKX, SpecRot, SpecEng, SpecHB,    *)
(* SpecDisc, SpecAnn) keep their state in the variable codec and leave the *)
(* transport at rest.                                                      *)
(***************************************************************************)
EXTENDS Integers, Sequences, FiniteSets, TLC

(***************************************************************************)
(* Bounds of the model.                                                    *)
(***************************************************************************)
\* NetworkManager objects (identities)
MaxManagers == 2
\* caller / command tasks running at the same time
MaxTasks == 2
\* TCP connections (identities)
MaxConns == 2
\* capacity of the mpsc channel; network.rs:69 creates it with 1000
ChannelCapacity == 2
\* SpecNM, SpecE2E: connections opened, frames written by peers, messages sent
NMConns == 1
NMFrames == 1
NMSends == 2
\* SpecSrv: connections opened, frames written by peers
SrvConns == 2
SrvFrames == 2
\* Spec: connections opened, frames written by peers, messages sent
AppConns == 1
AppFrames == 1
AppSends == 2
\* SpecEng: messages encrypted between two rotations, rotations
MaxEncrypts == 102
MaxRotations == 1

(***************************************************************************)
(* Program constants.                                                      *)
(***************************************************************************)
PROTOCOL_VERSION == 1
DefaultPort == 8000
\* ServerInfo.max_clients as TcpServer::get_info reports it
max_clients == 1
\* SecurityConfig::default().max_message_size, 1024 * 1024 bytes
max_message_size == 1048576

Managers == 1..MaxManagers
Tasks == 1..MaxTasks
Conns == 1..MaxConns
Ports == {DefaultPort}
\* the port argument of start_server: NoPort (None) or Some(port)
NoPort == 0
PortArgs == {NoPort} \cup Ports
Byte == 0..255

(***************************************************************************)
(* Messages (types.rs).  A Uuid is a number; fresh Uuids are fresh numbers.*)
(* Only the fields the transport reads or writes are kept.                 *)
(***************************************************************************)
NoMessage == [id |-> 0]

\* Message::new_text(content, sender_id): a Text message, not encrypted
new_text(content, id, sender_id) ==
    [id |-> id, message_type |-> "Text", content |-> content,
     sender_id |-> sender_id, encrypted |-> FALSE]

is_system(message) == message.message_type = "System"

Contents == {"hello"}
ContentCode(content) == CASE content = "hello" -> 1
MessageTypes == {"Text", "File", "System", "Heartbeat", "KeyExchange",
                 "Disconnect", "Acknowledgment"}

\* the kind byte of the header, ProtocolMessage::new
MessageTypeCode(message_type) ==
    CASE message_type = "Text" -> 1
      [] message_type = "File" -> 2
      [] message_type = "System" -> 3
      [] message_type = "Heartbeat" -> 4
      [] message_type = "KeyExchange" -> 5
      [] message_type = "Disconnect" -> 6
      [] message_type = "Acknowledgment" -> 9

(***************************************************************************)
(* serde_json, by its contract: to_vec writes an object, from_slice reads  *)
(* back exactly the objects to_vec writes and fails on anything else.      *)
(* The object is written as '{' id sender_id kind content encrypted '}'.   *)
(***************************************************************************)
JsonOpen == 123
JsonClose == 125

serde_to_vec(message) ==
    << JsonOpen, message.id, message.sender_id,
       MessageTypeCode(message.message_type), ContentCode(message.content),
       IF message.encrypted THEN 1 ELSE 0, JsonClose >>

serde_from_slice(data) ==
    IF /\ Len(data) = 7
       /\ data[1] = JsonOpen
       /\ data[7] = JsonClose
       /\ \E t \in MessageTypes : MessageTypeCode(t) = data[4]
       /\ \E c \in Contents : ContentCode(c) = data[5]
       /\ data[6] \in {0, 1}
    THEN [ok |-> TRUE,
          message |-> [id |-> data[2],
                       message_type |-> CHOOSE t \in MessageTypes : MessageTypeCode(t) = data[4],
                       content |-> CHOOSE c \in Contents : ContentCode(c) = data[5],
                       sender_id |-> data[3],
                       encrypted |-> data[6] = 1]]
    ELSE [ok |-> FALSE, message |-> NoMessage]

(***************************************************************************)
(* MessageHeader (protocol.rs): 8 bytes, length big-endian.                *)
(***************************************************************************)
\* A u32 is kept as two 16-bit halves, hi * 2^16 + lo, so that every value
\* up to 2^32 - 1 is represented.
\* `n as u32` of a usize n
u32(n) == [hi |-> (n \div 65536) % 65536, lo |-> n % 65536]

\* u32::MAX
U32Max == [hi |-> 65535, lo |-> 65535]

\* `u as usize`
usize(u) == u.hi * 65536 + u.lo

\* n < u as usize, for a usize n
usize_lt_u32(n, u) ==
    \/ n \div 65536 < u.hi
    \/ n \div 65536 = u.hi /\ n % 65536 < u.lo

\* faulty variant: the least significant byte first
u32_to_le_bytes(u) ==
    << u.lo % 256, u.lo \div 256, u.hi % 256, u.hi \div 256 >>

u32_to_be_bytes(u) ==
    << u.hi \div 256, u.hi % 256, u.lo \div 256, u.lo % 256 >>

u32_from_be_bytes(b) ==
    [hi |-> b[1] * 256 + b[2], lo |-> b[3] * 256 + b[4]]

MessageHeader_new(message_type, length, flags) ==
    [version |-> PROTOCOL_VERSION, message_type |-> message_type,
     flags |-> flags, length |-> length]

MessageHeader_to_bytes(h) ==
    << h.version, h.message_type, h.flags, 0 >> \o u32_to_be_bytes(h.length)

NoHeader == [version |-> 0, message_type |-> 0, flags |-> 0, length |-> u32(0)]

\* faulty variant: the version byte is not compared with PROTOCOL_VERSION
MessageHeader_from_bytes_AnyVersion(bytes) ==
    IF Len(bytes) < 8
    THEN [ok |-> FALSE, error |-> "Protocol", header |-> NoHeader]
    ELSE [ok |-> TRUE, error |-> "None",
          header |-> [version |-> bytes[1], message_type |-> bytes[2],
                      flags |-> bytes[3],
                      length |-> u32_from_be_bytes(SubSeq(bytes, 5, 8))]]

MessageHeader_from_bytes(bytes) ==
    IF Len(bytes) < 8
    THEN [ok |-> FALSE, error |-> "Protocol", header |-> NoHeader]
    ELSE IF bytes[1] # PROTOCOL_VERSION
    THEN [ok |-> FALSE, error |-> "Protocol", header |-> NoHeader]
    ELSE [ok |-> TRUE, error |-> "None",
          header |-> [version |-> bytes[1], message_type |-> bytes[2],
                      flags |-> bytes[3],
                      length |-> u32_from_be_bytes(SubSeq(bytes, 5, 8))]]

\* ProtocolMessage::new: the header of a message and its serialized payload
ProtocolMessage_new(message) ==
    LET serialized == serde_to_vec(message)
        flags == (IF message.encrypted THEN 1 ELSE 0)
                 + (IF ~is_system(message) THEN 4 ELSE 0)
    IN  [header |-> MessageHeader_new(MessageTypeCode(message.message_type),
                                      u32(Len(serialized)), flags),
         data |-> serialized]

ProtocolMessage_to_bytes(pm) == MessageHeader_to_bytes(pm.header) \o pm.data

ProtocolMessage_to_message(pm) == serde_from_slice(pm.data)

\* ProtocolMessage::from_bytes, lines 107-124
ProtocolMessage_from_bytes(data) ==
    IF Len(data) < 8
    THEN [ok |-> FALSE, error |-> "Protocol", header |-> NoHeader, data |-> << >>]
    ELSE LET h == MessageHeader_from_bytes(SubSeq(data, 1, 8))
         IN  IF ~h.ok
             THEN [ok |-> FALSE, error |-> h.error, header |-> NoHeader, data |-> << >>]
             ELSE IF usize_lt_u32(Len(data) - 8, h.header.length)
             THEN [ok |-> FALSE, error |-> "Protocol", header |-> NoHeader,
                   data |-> << >>]
             ELSE [ok |-> TRUE, error |-> "None", header |-> h.header,
                   data |-> SubSeq(data, 9, 8 + usize(h.header.length))]

\* the bytes left in a stream after its first n were read
Consume(buf, n) == SubSeq(buf, n + 1, Len(buf))

(***************************************************************************)
(* ProtocolHandler::receive_message on a stream holding the bytes buf,     *)
(* whose writer has (eof) or has not closed it.  read_exact waits until    *)
(* all the bytes it asks for are there and fails at end of stream.         *)
(* status: "wait" (suspended in a read), "err", "ok"; rest: bytes left.    *)
(***************************************************************************)
receive_message(buf, eof) ==
    IF Len(buf) < 8
    THEN [status |-> IF eof THEN "err" ELSE "wait", message |-> NoMessage, rest |-> buf]
    ELSE LET h == MessageHeader_from_bytes(SubSeq(buf, 1, 8))
             after == Consume(buf, 8)
         IN  IF ~h.ok
             THEN [status |-> "err", message |-> NoMessage, rest |-> after]
             ELSE IF usize_lt_u32(Len(after), h.header.length)
             THEN [status |-> IF eof THEN "err" ELSE "wait",
                   message |-> NoMessage, rest |-> buf]
             ELSE LET pm == [header |-> h.header,
                             data |-> SubSeq(after, 1, usize(h.header.length))]
                      m == ProtocolMessage_to_message(pm)
                  IN  [status |-> IF m.ok THEN "ok" ELSE "err",
                       message |-> m.message,
                       rest |-> Consume(after, usize(h.header.length))]

(***************************************************************************)
(* State.                                                                  *)
(***************************************************************************)
VARIABLES
    mgr,              \* NetworkManager objects: life cycle and fields
    chan,             \* per manager: the queue of its mpsc channel
    stats,            \* per manager: NetworkStats (shared with its tasks)
    task,             \* caller / command tasks and where each is suspended
    left,             \* what the environment may still do (the bounds)
    network_manager,  \* AppState.network_manager: 0 (None) or a manager
    lock,             \* the RwLock around AppState.network_manager
    listener,         \* per port: 0, or the manager whose accept loop owns it
    clients,          \* per port: the client table of that TcpServer
    conn,             \* TCP connections and the read loop of each
    ret,              \* the value returned to a caller by the step just taken
    codec             \* a value of protocol.rs, its bytes and what they decode to

vars == << mgr, chan, stats, task, left, network_manager, lock, listener,
           clients, conn, ret, codec >>

NoInfo == [port |-> 0]
NoClient == [id |-> 0, last_heartbeat |-> 0]

\* NetworkManager::new: no session, an empty channel, default statistics
NetworkManager_new ==
    [life |-> "live", connection_type |-> "None", server_info |-> NoInfo,
     client_info |-> NoInfo, connection_start_time |-> "None"]

Unborn == [NetworkManager_new EXCEPT !.life = "none"]

IdleTask == [op |-> "idle", pc |-> "idle", m |-> 0, address |-> "", port |-> 0,
             message |-> NoMessage, stream |-> 0, written |-> 0]
FreeConn == [pc |-> "free", port |-> 0, peer |-> "closed", origin |-> 0,
             buf |-> << >>, nwrote |-> 0, client |-> NoClient,
             message |-> NoMessage]

\* the receiver half lives in the manager: dropping the manager closes the channel
ChannelClosed(m) == mgr[m].life = "dropped"
ChannelFull(m) == Len(chan[m]) >= ChannelCapacity

\* &mut self methods need the manager unborrowed: no send_message in flight on it
Borrowed(m) == \E t \in Tasks : task[t].pc = "send" /\ task[t].m = m

NoRet == [op |-> "none", m |-> 0, res |-> "none"]

\* no header is being encoded or decoded
NoCodec == [pc |-> "none", header |-> NoHeader, bytes |-> << >>,
            decoded |-> [ok |-> FALSE, error |-> "None", header |-> NoHeader]]

InitCommon ==
    /\ chan = [m \in Managers |-> << >>]
    /\ stats = [m \in Managers |-> [messages_received |-> 0]]
    /\ task = [t \in Tasks |-> IdleTask]
    /\ network_manager = 0
    /\ lock = [writer |-> 0, readers |-> {}]
    /\ listener = [p \in Ports |-> 0]
    /\ clients = [p \in Ports |-> {}]
    /\ conn = [c \in Conns |-> FreeConn]
    /\ ret = NoRet
    /\ codec = NoCodec

\* the library API: one manager has been constructed by NetworkManager::new
InitNM ==
    /\ InitCommon
    /\ mgr = [m \in Managers |-> IF m = 1 THEN NetworkManager_new ELSE Unborn]
    /\ left = [conns |-> NMConns, frames |-> NMFrames, sends |-> NMSends]

\* the library API in two processes of one host: two managers constructed
InitE2E ==
    /\ InitCommon
    /\ mgr = [m \in Managers |-> IF m \in {1, 2} THEN NetworkManager_new ELSE Unborn]
    /\ left = [conns |-> NMConns, frames |-> NMFrames, sends |-> NMSends]

\* one manager, used as a server only, and its peers
InitSrv ==
    /\ InitCommon
    /\ mgr = [m \in Managers |-> IF m = 1 THEN NetworkManager_new ELSE Unborn]
    /\ left = [conns |-> SrvConns, frames |-> SrvFrames, sends |-> 0]

\* the application: AppState::new, no manager yet
Init ==
    /\ InitCommon
    /\ mgr = [m \in Managers |-> Unborn]
    /\ left = [conns |-> AppConns, frames |-> AppFrames, sends |-> AppSends]

(***************************************************************************)
(* NetworkManager methods, as functions of the state they read.            *)
(***************************************************************************)
PortOf(port_arg) == IF port_arg = NoPort THEN DefaultPort ELSE port_arg

\* TcpListener::bind fails when the port is held by a listener
BindOk(port) == listener[port] = 0

\* TcpServer::get_info
ServerInfo(port) == [port |-> port]
\* TcpClient::get_info
ClientInfo(port) == [port |-> port]

\* faulty variant of start_server: no check of connection_type
NM_start_server_Unchecked(m, port_arg) ==
    IF ~BindOk(PortOf(port_arg))
    THEN [res |-> "Network", manager |-> mgr[m]]
    ELSE [res |-> "Ok",
          manager |-> [mgr[m] EXCEPT !.server_info = ServerInfo(PortOf(port_arg)),
                                     !.connection_type = "Server",
                                     !.connection_start_time = "Some"]]

\* NetworkManager::start_server: the result and the manager afterwards
NM_start_server(m, port_arg) ==
    IF mgr[m].connection_type # "None"
    THEN [res |-> "AlreadyConnected", manager |-> mgr[m]]
    ELSE IF ~BindOk(PortOf(port_arg))
    THEN [res |-> "Network", manager |-> mgr[m]]
    ELSE [res |-> "Ok",
          manager |-> [mgr[m] EXCEPT !.server_info = ServerInfo(PortOf(port_arg)),
                                     !.connection_type = "Server",
                                     !.connection_start_time = "Some"]]

FreeConns == {c \in Conns : conn[c].pc = "free"}
NextConn == CHOOSE c \in FreeConns : \A d \in FreeConns : c <= d

\* a connection can still be opened within the bounds
CanOpen == left.conns > 0 /\ FreeConns # {}

\* TcpStream::connect succeeds when a listener holds the port (and the
\* network takes one more connection)
ConnectOk(port) == listener[port] # 0 /\ CanOpen

\* the address argument of connect_to_server: an IP literal or a host name
Addresses == {"127.0.0.1", "localhost"}

\* address.parse::<IpAddr>() accepts IP literals only
ParseOk(address) == address = "127.0.0.1"

\* NetworkManager::connect_to_server: the result and the manager afterwards;
\* "Panic": address.parse().unwrap() in TcpClient::new panicked, the call
\* returns nothing
NM_connect_to_server(m, address, port) ==
    IF mgr[m].connection_type # "None"
    THEN [res |-> "AlreadyConnected", manager |-> mgr[m]]
    ELSE IF ~ParseOk(address)
    THEN [res |-> "Panic", manager |-> mgr[m]]
    ELSE IF ~ConnectOk(port)
    THEN [res |-> "Network", manager |-> mgr[m]]
    ELSE [res |-> "Ok",
          manager |-> [mgr[m] EXCEPT !.client_info = ClientInfo(port),
                                     !.connection_type = "Client",
                                     !.connection_start_time = "Some"]]

\* faulty variant of stop_server: server_info is not cleared
NM_stop_server_KeepInfo(m) ==
    IF mgr[m].connection_type = "Server"
    THEN [res |-> "Ok",
          manager |-> [mgr[m] EXCEPT !.connection_type = "None",
                                     !.connection_start_time = "None"]]
    ELSE [res |-> "NotConnected", manager |-> mgr[m]]

\* NetworkManager::stop_server
NM_stop_server(m) ==
    IF mgr[m].connection_type = "Server"
    THEN [res |-> "Ok",
          manager |-> [mgr[m] EXCEPT !.server_info = NoInfo,
                                     !.connection_type = "None",
                                     !.connection_start_time = "None"]]
    ELSE [res |-> "NotConnected", manager |-> mgr[m]]

\* faulty variant of disconnect: succeeds whatever the role
NM_disconnect_Always(m) ==
    [res |-> "Ok",
     manager |-> [mgr[m] EXCEPT !.server_info = NoInfo, !.client_info = NoInfo,
                                !.connection_type = "None",
                                !.connection_start_time = "None"]]

\* NetworkManager::disconnect
NM_disconnect(m) ==
    CASE mgr[m].connection_type = "Server" -> NM_stop_server(m)
      [] mgr[m].connection_type = "Client" ->
            [res |-> "Ok",
             manager |-> [mgr[m] EXCEPT !.client_info = NoInfo,
                                        !.connection_type = "None",
                                        !.connection_start_time = "None"]]
      [] OTHER -> [res |-> "NotConnected", manager |-> mgr[m]]

\* NetworkManager::get_connection_status
get_connection_status(m) ==
    CASE mgr[m].connection_type = "Server" ->
            IF mgr[m].server_info # NoInfo THEN "Connected" ELSE "Disconnected"
      [] mgr[m].connection_type = "Client" ->
            IF mgr[m].client_info # NoInfo THEN "Connected" ELSE "Disconnected"
      [] OTHER -> "Disconnected"

(***************************************************************************)
(* Effects on the network of a successful start_server / connect.          *)
(***************************************************************************)
\* TcpServer::new + start_accepting_connections: the listener moves into the
\* spawned accept loop, with a new empty client table
SpawnAcceptLoop(m, port) ==
    /\ listener' = [listener EXCEPT ![port] = m]
    /\ clients' = [clients EXCEPT ![port] = {}]

\* TcpClient::new opens the socket; the TcpClient, and the stream in it, is
\* dropped when connect_to_server returns: the socket is closed at once
OpenAndDropStream(m, port) ==
    /\ conn' = [conn EXCEPT ![NextConn] =
                  [FreeConn EXCEPT !.pc = "backlog", !.port = port, !.origin = m,
                                   !.peer = "closed"]]
    /\ left' = [left EXCEPT !.conns = @ - 1]

(***************************************************************************)
(* SpecNM: calls of the NetworkManager API.                                *)
(***************************************************************************)
NM_StartServer(m, port_arg) ==
    /\ mgr[m].life = "live" /\ ~Borrowed(m)
    /\ LET r == NM_start_server(m, port_arg)
       IN  /\ mgr' = [mgr EXCEPT ![m] = r.manager]
           /\ ret' = [op |-> "start_server", m |-> m, res |-> r.res]
           /\ IF r.res = "Ok"
              THEN SpawnAcceptLoop(m, PortOf(port_arg))
              ELSE UNCHANGED << listener, clients >>
    /\ UNCHANGED << codec, chan, stats, task, left, network_manager, lock, conn >>

NM_ConnectToServer(m, address, port) ==
    /\ mgr[m].life = "live" /\ ~Borrowed(m)
    /\ LET r == NM_connect_to_server(m, address, port)
       IN  /\ mgr' = [mgr EXCEPT ![m] = r.manager]
           /\ ret' = [op |-> "connect_to_server", m |-> m, res |-> r.res]
           /\ IF r.res = "Ok"
              THEN OpenAndDropStream(m, port)
              ELSE UNCHANGED << conn, left >>
    /\ UNCHANGED << codec, chan, stats, task, network_manager, lock, listener, clients >>

NM_StopServer(m) ==
    /\ mgr[m].life = "live" /\ ~Borrowed(m)
    /\ LET r == NM_stop_server(m)
       IN  /\ mgr' = [mgr EXCEPT ![m] = r.manager]
           /\ ret' = [op |-> "stop_server", m |-> m, res |-> r.res]
    /\ UNCHANGED << codec, chan, stats, task, left, network_manager, lock, listener,
                    clients, conn >>

NM_Disconnect(m) ==
    /\ mgr[m].life = "live" /\ ~Borrowed(m)
    /\ LET r == NM_disconnect(m)
       IN  /\ mgr' = [mgr EXCEPT ![m] = r.manager]
           /\ ret' = [op |-> "disconnect", m |-> m, res |-> r.res]
    /\ UNCHANGED << codec, chan, stats, task, left, network_manager, lock, listener,
                    clients, conn >>

\* Uuid::new_v4 for a message a caller creates, k sends being left
LocalId(k) == 100 + k
LocalSender(k) == 200 + k
IsLocal(message) == message.sender_id >= 200

\* Message::new_text(content, Uuid::new_v4())
NewLocalMessage(content) == new_text(content, LocalId(left.sends), LocalSender(left.sends))

\* a caller creates a text message and calls send_message(&self, message)
NM_SendMessageCall(t, m, content) ==
    /\ task[t].pc = "idle"
    /\ mgr[m].life = "live"
    /\ left.sends > 0
    /\ left' = [left EXCEPT !.sends = @ - 1]
    /\ task' = [task EXCEPT ![t] =
                  [IdleTask EXCEPT !.op = "send_message", !.pc = "send", !.m = m,
                                   !.message = NewLocalMessage(content)]]
    /\ ret' = NoRet
    /\ UNCHANGED << codec, mgr, chan, stats, network_manager, lock, listener, clients, conn >>

(***************************************************************************)
(* mpsc::Sender::send: waits while the queue is full, fails once the       *)
(* receiver is gone, otherwise appends.                                    *)
(***************************************************************************)
\* faulty variant of the sender: it never waits for space
SenderNeverWaits(m) == TRUE

SenderCanProceed(m) == ChannelClosed(m) \/ ~ChannelFull(m)

\* faulty variant of the queue: the newest message goes to the head
EnqueueFront(queue, message) == << message >> \o queue

Enqueue(queue, message) == Append(queue, message)

\* NetworkManager::send_message completes for task t (either specification)
\* and, for the send_message command, the read guard on the slot is dropped
SendMessageComplete(t) ==
    /\ task[t].pc = "send"
    /\ SenderCanProceed(task[t].m)
    /\ IF ChannelClosed(task[t].m)
       THEN /\ ret' = [op |-> task[t].op, m |-> task[t].m, res |-> "Internal"]
            /\ UNCHANGED chan
       ELSE /\ chan' = [chan EXCEPT ![task[t].m] = Enqueue(@, task[t].message)]
            /\ ret' = [op |-> task[t].op, m |-> task[t].m, res |-> "Ok"]
    /\ task' = [task EXCEPT ![t] = IdleTask]
    /\ lock' = [lock EXCEPT !.readers = @ \ {t}]
    /\ UNCHANGED << codec, mgr, stats, left, network_manager, listener, clients, conn >>

(***************************************************************************)
(* Remote peers: any program that opens a TCP connection to a listening    *)
(* port, writes bytes and closes.                                          *)
(***************************************************************************)
FrameKinds == {"good", "bad_version", "bad_payload"}

\* the message in the k-th frame the peer of connection c writes
PeerMessage(c, k) == new_text("hello", k, c)

\* the bytes a peer writes for one frame
FrameBytes(kind, message) ==
    CASE kind = "good" -> ProtocolMessage_to_bytes(ProtocolMessage_new(message))
      [] kind = "bad_version" ->
            MessageHeader_to_bytes(
                [ProtocolMessage_new(message).header EXCEPT !.version = PROTOCOL_VERSION + 1])
            \o ProtocolMessage_new(message).data
      [] kind = "bad_payload" ->
            MessageHeader_to_bytes(MessageHeader_new(MessageTypeCode("Text"), u32(1), 4))
            \o << 0 >>

PeerConnect(port) ==
    /\ ConnectOk(port)
    /\ conn' = [conn EXCEPT ![NextConn] =
                  [FreeConn EXCEPT !.pc = "backlog", !.port = port, !.peer = "open"]]
    /\ left' = [left EXCEPT !.conns = @ - 1]
    /\ ret' = NoRet
    /\ UNCHANGED << codec, mgr, chan, stats, task, network_manager, lock, listener, clients >>

PeerWrite(c, kind) ==
    /\ conn[c].pc \notin {"free", "done"}
    /\ conn[c].origin = 0
    /\ conn[c].peer = "open"
    /\ left.frames > 0
    /\ left' = [left EXCEPT !.frames = @ - 1]
    /\ conn' = [conn EXCEPT
                  ![c].buf = @ \o FrameBytes(kind, PeerMessage(c, conn[c].nwrote + 1)),
                  ![c].nwrote = @ + 1]
    /\ ret' = NoRet
    /\ UNCHANGED << codec, mgr, chan, stats, task, network_manager, lock, listener, clients >>

\* the peer closes its end: how == "eof", the bytes written stay readable and
\* end of stream follows them; how == "reset", the connection is reset, the
\* unread bytes are lost and the next read fails
PeerClose(c, how) ==
    /\ conn[c].pc \notin {"free", "done"}
    /\ conn[c].origin = 0
    /\ conn[c].peer = "open"
    /\ conn' = [conn EXCEPT ![c].peer = "closed",
                            ![c].buf = IF how = "reset" THEN << >> ELSE @]
    /\ ret' = NoRet
    /\ UNCHANGED << codec, mgr, chan, stats, task, left, network_manager, lock, listener,
                    clients >>

(***************************************************************************)
(* TcpServer::start_accepting_connections: the accept loop of a port.      *)
(* Nothing ends it: it owns the listener for the rest of the process.      *)
(***************************************************************************)
Backlog(port) == {c \in Conns : conn[c].pc = "backlog" /\ conn[c].port = port}

\* HashMap::insert / HashMap::remove / lookup on a client table, by client id
TableInsert(table, client) == {r \in table : r.id # client.id} \cup {client}
TableRemove(table, id) == {r \in table : r.id # id}
TableGet(table, id) ==
    IF \E r \in table : r.id = id THEN CHOOSE r \in table : r.id = id ELSE NoClient

\* one turn of the loop: accept the oldest queued connection, register its
\* ClientConnection and spawn handle_client_messages for it
Accept(port) ==
    /\ listener[port] # 0
    /\ Backlog(port) # {}
    /\ LET c == CHOOSE c \in Backlog(port) : \A d \in Backlog(port) : c <= d
       IN  /\ clients' = [clients EXCEPT ![port] =
                            TableInsert(@, [id |-> c, last_heartbeat |-> 0])]
           /\ conn' = [conn EXCEPT ![c].pc = "take"]
    /\ ret' = NoRet
    /\ UNCHANGED << codec, mgr, chan, stats, task, left, network_manager, lock, listener >>

(***************************************************************************)
(* TcpServer::handle_client_messages: the read loop of connection c.       *)
(* pc: take -> recv -> send -> stats -> reinsert -> take ...; a break runs *)
(* the removal after the loop (lines 331-335) and ends the task: done.     *)
(***************************************************************************)
ServerOf(c) == listener[conn[c].port]

\* faulty variant of the cleanup: the whole table is cleared
AfterLoopClearAll(table, c) == {}

\* lines 331-335, after a break: the table without the record of c
AfterLoop(table, c) == TableRemove(table, c)

\* lines 288-293 and 325-328: take the record out of the table, or break
ReadLoopTake(c) ==
    /\ conn[c].pc = "take"
    /\ LET client == TableGet(clients[conn[c].port], c)
       IN  IF client # NoClient
           THEN /\ clients' = [clients EXCEPT ![conn[c].port] = TableRemove(@, c)]
                /\ conn' = [conn EXCEPT ![c].client = client, ![c].pc = "recv"]
           ELSE /\ clients' = [clients EXCEPT ![conn[c].port] = AfterLoop(@, c)]
                /\ conn' = [conn EXCEPT ![c].pc = "done"]
    /\ ret' = NoRet
    /\ UNCHANGED << codec, mgr, chan, stats, task, left, network_manager, lock, listener >>

\* what receive_message returns on connection c
ReceiveOn(c) == receive_message(conn[c].buf, conn[c].peer = "closed")

\* lines 296-299 and 320-323: receive_message returns
ReadLoopReceive(c) ==
    /\ conn[c].pc = "recv"
    /\ LET r == ReceiveOn(c)
       IN  /\ r.status # "wait"
           /\ IF r.status = "ok"
              THEN /\ conn' = [conn EXCEPT
                                 ![c].buf = r.rest,
                                 ![c].message = r.message,
                                 ![c].client.last_heartbeat = @ + 1,
                                 ![c].pc = "send"]
                   /\ UNCHANGED clients
              ELSE /\ conn' = [conn EXCEPT
                                 ![c].buf = r.rest,
                                 ![c].client = NoClient,
                                 ![c].pc = "done"]
                   /\ clients' = [clients EXCEPT ![conn[c].port] = AfterLoop(@, c)]
    /\ ret' = NoRet
    /\ UNCHANGED << codec, mgr, chan, stats, task, left, network_manager, lock, listener >>

\* lines 302-305: message_sender.send(message).await
ReadLoopSend(c) ==
    /\ conn[c].pc = "send"
    /\ SenderCanProceed(ServerOf(c))
    /\ IF ChannelClosed(ServerOf(c))
       THEN /\ conn' = [conn EXCEPT ![c].message = NoMessage,
                                    ![c].client = NoClient,
                                    ![c].pc = "done"]
            /\ clients' = [clients EXCEPT ![conn[c].port] = AfterLoop(@, c)]
            /\ UNCHANGED chan
       ELSE /\ chan' = [chan EXCEPT ![ServerOf(c)] = Enqueue(@, conn[c].message)]
            /\ conn' = [conn EXCEPT ![c].message = NoMessage, ![c].pc = "stats"]
            /\ UNCHANGED clients
    /\ ret' = NoRet
    /\ UNCHANGED << codec, mgr, stats, task, left, network_manager, lock, listener >>

\* faulty variant of the stats update: the message is counted twice
CountReceivedTwice(s) == [s EXCEPT !.messages_received = @ + 2]

\* line 310: stats.messages_received += 1
CountReceived(s) == [s EXCEPT !.messages_received = @ + 1]

\* lines 308-312
ReadLoopStats(c) ==
    /\ conn[c].pc = "stats"
    /\ stats' = [stats EXCEPT ![ServerOf(c)] = CountReceived(@)]
    /\ conn' = [conn EXCEPT ![c].pc = "reinsert"]
    /\ ret' = NoRet
    /\ UNCHANGED << codec, mgr, chan, task, left, network_manager, lock, listener, clients >>

\* lines 315-318
ReadLoopReinsert(c) ==
    /\ conn[c].pc = "reinsert"
    /\ clients' = [clients EXCEPT ![conn[c].port] = TableInsert(@, conn[c].client)]
    /\ conn' = [conn EXCEPT ![c].client = NoClient, ![c].pc = "take"]
    /\ ret' = NoRet
    /\ UNCHANGED << codec, mgr, chan, stats, task, left, network_manager, lock, listener >>

ReadLoop(c) ==
    \/ ReadLoopTake(c)
    \/ ReadLoopReceive(c)
    \/ ReadLoopSend(c)
    \/ ReadLoopStats(c)
    \/ ReadLoopReinsert(c)

\* the steps of the tasks a server spawns
ServerTasks ==
    \/ \E port \in Ports : Accept(port)
    \/ \E c \in Conns : ReadLoop(c)

\* the steps of the remote peers
Peers ==
    \/ \E port \in Ports : PeerConnect(port)
    \/ \E c \in Conns, kind \in FrameKinds : PeerWrite(c, kind)
    \/ \E c \in Conns, how \in {"eof", "reset"} : PeerClose(c, how)

NextNM ==
    \/ \E m \in Managers, port_arg \in PortArgs : NM_StartServer(m, port_arg)
    \/ \E m \in Managers, address \in Addresses, port \in Ports :
          NM_ConnectToServer(m, address, port)
    \/ \E m \in Managers : NM_StopServer(m)
    \/ \E m \in Managers : NM_Disconnect(m)
    \/ \E t \in Tasks, m \in Managers, content \in Contents :
          NM_SendMessageCall(t, m, content)
    \/ \E t \in Tasks : SendMessageComplete(t)
    \/ ServerTasks
    \/ Peers

NextSrv ==
    \/ \E m \in Managers, port_arg \in PortArgs : NM_StartServer(m, port_arg)
    \/ \E m \in Managers : NM_StopServer(m)
    \/ ServerTasks
    \/ Peers

\* the tokio runtime runs every task that can run
TaskFairness ==
    /\ \A port \in Ports : WF_vars(Accept(port))
    /\ \A c \in Conns : WF_vars(ReadLoop(c))
    /\ \A t \in Tasks : WF_vars(SendMessageComplete(t))

SpecNM == InitNM /\ [][NextNM]_vars
SpecE2E == InitE2E /\ [][NextNM]_vars
SpecSrv == InitSrv /\ [][NextSrv]_vars
FairSpecNM == SpecNM /\ TaskFairness
FairSpecE2E == SpecE2E /\ TaskFairness

(***************************************************************************)
(* SpecSec: the server of SpecSrv with peers that also write frames whose  *)
(* encrypted flag is set.  No peer holds a session secret: every           *)
(* ClientConnection is created with shared_secret: None (network.rs:248)   *)
(* and nothing assigns the field.                                          *)
(***************************************************************************)
shared_secret(client) == "None"

\* the k-th message of the peer of c, marked encrypted
SecureMessageOf(c, k) == [PeerMessage(c, k) EXCEPT !.encrypted = TRUE]

\* the peer writes a frame with the encrypted flag set in header and payload
PeerWriteSecure(c) ==
    /\ conn[c].pc \notin {"free", "done"}
    /\ conn[c].origin = 0
    /\ conn[c].peer = "open"
    /\ left.frames > 0
    /\ left' = [left EXCEPT !.frames = @ - 1]
    /\ conn' = [conn EXCEPT
                  ![c].buf = @ \o ProtocolMessage_to_bytes(
                                     ProtocolMessage_new(
                                        SecureMessageOf(c, conn[c].nwrote + 1))),
                  ![c].nwrote = @ + 1]
    /\ ret' = NoRet
    /\ UNCHANGED << codec, mgr, chan, stats, task, network_manager, lock, listener, clients >>

NextSec ==
    \/ NextSrv
    \/ \E c \in Conns : PeerWriteSecure(c)

SpecSec == InitSrv /\ [][NextSec]_vars

(***************************************************************************)
(* SpecBig: the server of SpecSrv with peers that also write a header      *)
(* declaring more payload than SecurityConfig::max_message_size.           *)
(***************************************************************************)
\* the lengths above the maximum that such a peer declares
OversizedLengths == {u32(max_message_size + 1), U32Max}

\* the peer writes the 8 bytes of a Text header with that length, no payload
PeerWriteOversized(c, length) ==
    /\ conn[c].pc \notin {"free", "done"}
    /\ conn[c].origin = 0
    /\ conn[c].peer = "open"
    /\ left.frames > 0
    /\ left' = [left EXCEPT !.frames = @ - 1]
    /\ conn' = [conn EXCEPT
                  ![c].buf = @ \o MessageHeader_to_bytes(
                                     MessageHeader_new(MessageTypeCode("Text"), length, 4)),
                  ![c].nwrote = @ + 1]
    /\ ret' = NoRet
    /\ UNCHANGED << codec, mgr, chan, stats, task, network_manager, lock, listener, clients >>

NextBig ==
    \/ NextSrv
    \/ \E c \in Conns, length \in OversizedLengths : PeerWriteOversized(c, length)

SpecBig == InitSrv /\ [][NextBig]_vars

(***************************************************************************)
(* SpecWire: callers of ProtocolHandler::send_message(&mut stream, message)*)
(* on connected TcpStreams.  write_all hands the bytes to the socket in *)
(* pieces and may be suspended between two pieces; the stream is borrowed  *)
(* mutably for the whole call.                                             *)
(***************************************************************************)
InitWire ==
    /\ chan = [m \in Managers |-> << >>]
    /\ stats = [m \in Managers |-> [messages_received |-> 0]]
    /\ task = [t \in Tasks |-> IdleTask]
    /\ network_manager = 0
    /\ lock = [writer |-> 0, readers |-> {}]
    /\ listener = [p \in Ports |-> 0]
    /\ clients = [p \in Ports |-> {}]
    /\ conn = [c \in Conns |-> [FreeConn EXCEPT !.pc = "stream", !.peer = "open"]]
    /\ ret = NoRet
    /\ codec = NoCodec
    /\ mgr = [m \in Managers |-> Unborn]
    /\ left = [conns |-> 0, frames |-> 0, sends |-> NMSends]

Streams == {c \in Conns : conn[c].pc = "stream"}

\* the tasks inside send_message on stream c
Writers(c) == {t \in Tasks : task[t].pc \in {"write", "flush"} /\ task[t].stream = c}

\* faulty variant of the borrow: the stream is handed out while borrowed
StreamShared(c) == TRUE

\* &mut TcpStream: the stream can be borrowed when no call holds it
StreamFree(c) == Writers(c) = {}

\* lines 140-141: the bytes of the frame of a message
FrameOf(message) == ProtocolMessage_to_bytes(ProtocolMessage_new(message))

\* a caller creates a message and enters send_message with the stream
WireSendCall(t, c, content) ==
    /\ task[t].pc = "idle"
    /\ c \in Streams
    /\ StreamFree(c)
    /\ left.sends > 0
    /\ left' = [left EXCEPT !.sends = @ - 1]
    /\ task' = [task EXCEPT ![t] =
                  [IdleTask EXCEPT !.op = "protocol_send_message", !.pc = "write",
                                   !.stream = c,
                                   !.message = NewLocalMessage(content)]]
    /\ ret' = NoRet
    /\ UNCHANGED << codec, mgr, chan, stats, network_manager, lock, listener, clients, conn >>

\* line 144, write_all: the socket takes the next k bytes of the frame
WireWritePiece(t, k) ==
    /\ conn' = [conn EXCEPT ![task[t].stream].buf =
                  @ \o SubSeq(FrameOf(task[t].message),
                              task[t].written + 1, task[t].written + k)]
    /\ task' = [task EXCEPT
                  ![t].written = @ + k,
                  ![t].pc = IF task[t].written + k = Len(FrameOf(task[t].message))
                            THEN "flush" ELSE "write"]
    /\ ret' = NoRet
    /\ UNCHANGED << codec, mgr, chan, stats, left, network_manager, lock, listener, clients >>

WireWrite(t) ==
    /\ task[t].pc = "write"
    /\ \E k \in 1..(Len(FrameOf(task[t].message)) - task[t].written) :
          WireWritePiece(t, k)

\* lines 147-150: flush, and the call returns Ok
WireFlush(t) ==
    /\ task[t].pc = "flush"
    /\ ret' = [op |-> "protocol_send_message", m |-> 0, res |-> "Ok"]
    /\ task' = [task EXCEPT ![t] = IdleTask]
    /\ UNCHANGED << codec, mgr, chan, stats, left, network_manager, lock, listener, clients,
                    conn >>

NextWire ==
    \/ \E t \in Tasks, c \in Conns, content \in Contents : WireSendCall(t, c, content)
    \/ \E t \in Tasks : WireWrite(t)
    \/ \E t \in Tasks : WireFlush(t)

SpecWire == InitWire /\ [][NextWire]_vars

(***************************************************************************)
(* SpecHdr: the header codec on its own.  A header is built by             *)
(* MessageHeader::new from a kind byte, a flags byte and a u32 length,     *)
(* written by to_bytes and read back by from_bytes.                        *)
(***************************************************************************)
\* kind bytes: the codes ProtocolMessage::new writes, and two it never writes
KindBytes == {MessageTypeCode(t) : t \in MessageTypes} \cup {0, 255}
FlagBytes == {0, 1, 4, 5, 255}
\* u32 lengths on both sides of every byte boundary, up to u32::MAX
Lengths ==
    {u32(n) : n \in {0, 1, 255, 256, 65535, 65536, 16777215, 16777216, 2147483647}}
    \cup {[hi |-> 32768, lo |-> 0], [hi |-> 65280, lo |-> 255], U32Max}

InitHdr ==
    /\ chan = [m \in Managers |-> << >>]
    /\ stats = [m \in Managers |-> [messages_received |-> 0]]
    /\ task = [t \in Tasks |-> IdleTask]
    /\ network_manager = 0
    /\ lock = [writer |-> 0, readers |-> {}]
    /\ listener = [p \in Ports |-> 0]
    /\ clients = [p \in Ports |-> {}]
    /\ conn = [c \in Conns |-> FreeConn]
    /\ ret = NoRet
    /\ mgr = [m \in Managers |-> Unborn]
    /\ left = [conns |-> 0, frames |-> 0, sends |-> 0]
    /\ \E message_type \in KindBytes, length \in Lengths, flags \in FlagBytes :
          codec = [NoCodec EXCEPT
                     !.pc = "header",
                     !.header = MessageHeader_new(message_type, length, flags)]

\* lines 30-38
HeaderToBytes ==
    /\ codec.pc = "header"
    /\ codec' = [codec EXCEPT !.pc = "bytes",
                              !.bytes = MessageHeader_to_bytes(codec.header)]
    /\ UNCHANGED << mgr, chan, stats, task, left, network_manager, lock, listener,
                    clients, conn, ret >>

\* lines 41-61
HeaderFromBytes ==
    /\ codec.pc = "bytes"
    /\ codec' = [codec EXCEPT !.pc = "decoded",
                              !.decoded = MessageHeader_from_bytes(codec.bytes)]
    /\ UNCHANGED << mgr, chan, stats, task, left, network_manager, lock, listener,
                    clients, conn, ret >>

NextHdr ==
    \/ HeaderToBytes
    \/ HeaderFromBytes

SpecHdr == InitHdr /\ [][NextHdr]_vars

(***************************************************************************)
(* SpecPM: the frame codec on its own.  A message is framed by             *)
(* ProtocolMessage::new and to_bytes; the buffer reaches from_bytes as it  *)
(* was written, cut short, or with bytes after the payload.                *)
(***************************************************************************)
\* the messages framed: every kind, plain and marked encrypted
FramedMessages ==
    {[new_text("hello", id, sender_id) EXCEPT !.message_type = t, !.encrypted = e] :
        id \in {1, 2}, sender_id \in {1, 2}, t \in MessageTypes, e \in BOOLEAN}

\* bytes cut from the end (below 0) or added after the payload (above 0)
Extras == {-8, -1, 1, 2}

InitPM ==
    /\ chan = [m \in Managers |-> << >>]
    /\ stats = [m \in Managers |-> [messages_received |-> 0]]
    /\ task = [t \in Tasks |-> IdleTask]
    /\ network_manager = 0
    /\ lock = [writer |-> 0, readers |-> {}]
    /\ listener = [p \in Ports |-> 0]
    /\ clients = [p \in Ports |-> {}]
    /\ conn = [c \in Conns |-> FreeConn]
    /\ ret = NoRet
    /\ mgr = [m \in Managers |-> Unborn]
    /\ left = [conns |-> 0, frames |-> 0, sends |-> 0]
    /\ \E message \in FramedMessages :
          codec = [pc |-> "message", message |-> message, bytes |-> << >>,
                   extra |-> 0, decoded |-> ProtocolMessage_from_bytes(<< >>)]

\* lines 72-104
PMToBytes ==
    /\ codec.pc = "message"
    /\ codec' = [codec EXCEPT
                   !.pc = "bytes",
                   !.bytes = ProtocolMessage_to_bytes(ProtocolMessage_new(codec.message))]
    /\ UNCHANGED << mgr, chan, stats, task, left, network_manager, lock, listener,
                    clients, conn, ret >>

\* the buffer is handed on with its end cut or with bytes after the payload
PMResize(extra) ==
    /\ codec.pc = "bytes"
    /\ codec.extra = 0
    /\ codec' = [codec EXCEPT
                   !.extra = extra,
                   !.bytes = IF extra < 0
                             THEN SubSeq(@, 1, Len(@) + extra)
                             ELSE @ \o [i \in 1..extra |-> JsonOpen]]
    /\ UNCHANGED << mgr, chan, stats, task, left, network_manager, lock, listener,
                    clients, conn, ret >>

\* lines 107-124
PMFromBytes ==
    /\ codec.pc = "bytes"
    /\ codec' = [codec EXCEPT !.pc = "decoded",
                              !.decoded = ProtocolMessage_from_bytes(codec.bytes)]
    /\ UNCHANGED << mgr, chan, stats, task, left, network_manager, lock, listener,
                    clients, conn, ret >>

NextPM ==
    \/ PMToBytes
    \/ \E extra \in Extras : PMResize(extra)
    \/ PMFromBytes

SpecPM == InitPM /\ [][NextPM]_vars

(***************************************************************************)
(* SpecFlags: the flags byte.  ProtocolMessage::new builds it by or-ing    *)
(* one bit per flag (protocol.rs:86-88); types.rs reads a byte back with   *)
(* From<u8> for MessageFlags, an enum of one flag per value.               *)
(***************************************************************************)
MessageFlags == {"None", "Encrypted", "Compressed", "Chunked", "Acknowledgment"}

\* From<MessageFlags> for u8: the discriminant
MessageFlags_to_u8(flag) ==
    CASE flag = "None" -> 0
      [] flag = "Encrypted" -> 1
      [] flag = "Compressed" -> 2
      [] flag = "Chunked" -> 4
      [] flag = "Acknowledgment" -> 8

\* From<u8> for MessageFlags
MessageFlags_from_u8(value) ==
    CASE value = 0 -> "None"
      [] value = 1 -> "Encrypted"
      [] value = 2 -> "Compressed"
      [] value = 4 -> "Chunked"
      [] value = 8 -> "Acknowledgment"
      [] OTHER -> "None"

\* flags |= bit, for each flag of the set
FlagsByte(flags) ==
    (IF "Encrypted" \in flags THEN MessageFlags_to_u8("Encrypted") ELSE 0)
    + (IF "Compressed" \in flags THEN MessageFlags_to_u8("Compressed") ELSE 0)
    + (IF "Chunked" \in flags THEN MessageFlags_to_u8("Chunked") ELSE 0)
    + (IF "Acknowledgment" \in flags THEN MessageFlags_to_u8("Acknowledgment") ELSE 0)

\* the flags a MessageFlags value says are set
FlagsOf(flag) == IF flag = "None" THEN {} ELSE {flag}

InitFlags ==
    /\ chan = [m \in Managers |-> << >>]
    /\ stats = [m \in Managers |-> [messages_received |-> 0]]
    /\ task = [t \in Tasks |-> IdleTask]
    /\ network_manager = 0
    /\ lock = [writer |-> 0, readers |-> {}]
    /\ listener = [p \in Ports |-> 0]
    /\ clients = [p \in Ports |-> {}]
    /\ conn = [c \in Conns |-> FreeConn]
    /\ ret = NoRet
    /\ mgr = [m \in Managers |-> Unborn]
    /\ left = [conns |-> 0, frames |-> 0, sends |-> 0]
    /\ \/ \E flags \in SUBSET (MessageFlags \ {"None"}) :
             codec = [pc |-> "flags", origin |-> "flags", flags |-> flags,
                      byte |-> 0, decoded |-> "None"]
       \/ \E byte \in Byte :
             codec = [pc |-> "byte", origin |-> "wire", flags |-> {},
                      byte |-> byte, decoded |-> "None"]

\* a set of flags is written as its byte
FlagsToByte ==
    /\ codec.pc = "flags"
    /\ codec' = [codec EXCEPT !.pc = "byte", !.byte = FlagsByte(codec.flags)]
    /\ UNCHANGED << mgr, chan, stats, task, left, network_manager, lock, listener,
                    clients, conn, ret >>

\* MessageFlags::from(byte)
FlagsFromByte ==
    /\ codec.pc = "byte"
    /\ codec' = [codec EXCEPT !.pc = "decoded",
                              !.decoded = MessageFlags_from_u8(codec.byte)]
    /\ UNCHANGED << mgr, chan, stats, task, left, network_manager, lock, listener,
                    clients, conn, ret >>

NextFlags ==
    \/ FlagsToByte
    \/ FlagsFromByte

SpecFlags == InitFlags /\ [][NextFlags]_vars

(***************************************************************************)
(* encryption.rs.  The primitives of the sha2 and aes_gcm crates are       *)
(* modelled at byte level by small functions that keep their contracts:    *)
(* Sha256 gives 32 bytes and changes when a bit of its input changes;      *)
(* Aes256Gcm::encrypt gives the ciphertext and a 16-byte tag, and decrypt  *)
(* returns the plaintext for the same key and nonce and an untouched       *)
(* ciphertext and tag, an error otherwise.                                 *)
(***************************************************************************)
\* the bytes lo..hi of data, each weighed by its position, summed by halves
RECURSIVE ByteSum(_, _, _)
ByteSum(data, lo, hi) ==
    IF lo > hi THEN 0
    ELSE IF lo = hi THEN (lo * data[lo]) % 251
    ELSE LET mid == (lo + hi) \div 2
         IN  (ByteSum(data, lo, mid) + ByteSum(data, mid + 1, hi)) % 251

\* Sha256::new(), update(data), finalize()
Sha256(data) ==
    LET sum == ByteSum(data, 1, Len(data))
    IN  [i \in 1..32 |-> (sum * i + Len(data) + i) % 251]

\* the key stream byte of AES-256 in counter mode at position i
Keystream(key, nonce, i) ==
    (key[((i - 1) % 32) + 1] + 3 * nonce[((i - 1) % 12) + 1] + i) % 256

\* the GCM tag of a ciphertext
GcmTag(key, nonce, ciphertext) == SubSeq(Sha256(key \o nonce \o ciphertext), 1, 16)

\* Aes256Gcm::encrypt(nonce, plaintext): ciphertext followed by its tag
Aes256Gcm_encrypt(key, nonce, plaintext) ==
    LET ciphertext == [i \in 1..Len(plaintext) |->
                          (plaintext[i] + Keystream(key, nonce, i)) % 256]
    IN  ciphertext \o GcmTag(key, nonce, ciphertext)

\* Aes256Gcm::decrypt(nonce, ciphertext with tag)
Aes256Gcm_decrypt(key, nonce, data) ==
    IF Len(data) < 16 THEN [ok |-> FALSE, plaintext |-> << >>]
    ELSE LET ciphertext == SubSeq(data, 1, Len(data) - 16)
             tag == SubSeq(data, Len(data) - 15, Len(data))
         IN  IF GcmTag(key, nonce, ciphertext) # tag
             THEN [ok |-> FALSE, plaintext |-> << >>]
             ELSE [ok |-> TRUE,
                   plaintext |-> [i \in 1..Len(ciphertext) |->
                                     (ciphertext[i] + 256 - Keystream(key, nonce, i)) % 256]]

\* the byte strings b"..." hashed with keys and messages, by their lengths
Label(name) ==
    CASE name = "encryption" -> [i \in 1..10 |-> 101]
      [] name = "mac" -> [i \in 1..3 |-> 109]
      [] name = "tcp-messenger-v1" -> [i \in 1..16 |-> 116]
      [] name = "tcp-messenger-mac" -> [i \in 1..17 |-> 117]

\* [byte; n]
Repeat(byte, n) == [i \in 1..n |-> byte]

\* threshold of both constructors, lines 77 and 93
max_messages_per_key == 100

\* EncryptionEngine::from_key(key); nonce_bytes is what thread_rng gave
EncryptionEngine_from_key(key, nonce_bytes) ==
    [key |-> key, nonce |-> nonce_bytes, key_rotation_counter |-> 0]

\* encrypt_message, lines 98-115; nonce_bytes is what thread_rng gave
encrypt_message(engine, message, nonce_bytes) ==
    [result |-> nonce_bytes \o Aes256Gcm_encrypt(engine.key, nonce_bytes, message),
     engine |-> [engine EXCEPT !.key_rotation_counter = @ + 1]]

\* faulty variant: decrypts with the nonce of the engine, not of the message
decrypt_message_EngineNonce(engine, encrypted_data) ==
    IF Len(encrypted_data) < 12
    THEN [ok |-> FALSE, error |-> "Invalid encrypted data length",
          plaintext |-> << >>, cipher_ran |-> FALSE]
    ELSE LET r == Aes256Gcm_decrypt(engine.key, engine.nonce,
                                    SubSeq(encrypted_data, 13, Len(encrypted_data)))
         IN  [ok |-> r.ok,
              error |-> IF r.ok THEN "None" ELSE "Failed to decrypt message",
              plaintext |-> r.plaintext, cipher_ran |-> TRUE]

\* decrypt_message, lines 118-132
decrypt_message(engine, encrypted_data) ==
    IF Len(encrypted_data) < 12
    THEN [ok |-> FALSE, error |-> "Invalid encrypted data length",
          plaintext |-> << >>, cipher_ran |-> FALSE]
    ELSE LET r == Aes256Gcm_decrypt(engine.key, SubSeq(encrypted_data, 1, 12),
                                    SubSeq(encrypted_data, 13, Len(encrypted_data)))
         IN  [ok |-> r.ok,
              error |-> IF r.ok THEN "None" ELSE "Failed to decrypt message",
              plaintext |-> r.plaintext, cipher_ran |-> TRUE]

\* MessageAuthenticator::create_mac, lines 295-305
create_mac(key, message) == Sha256(key \o message \o Label("tcp-messenger-mac"))

\* faulty variant: every MAC is accepted
verify_mac_Always(key, message, mac) == TRUE

\* MessageAuthenticator::verify_mac, lines 308-311
verify_mac(key, message, mac) == create_mac(key, message) = mac

\* SecureMessage::encrypt, lines 322-340
SecureMessage_encrypt(plaintext, encryption_key, mac_key, nonce_bytes) ==
    LET engine == EncryptionEngine_from_key(encryption_key, nonce_bytes)
        encrypted_data == encrypt_message(engine, plaintext, nonce_bytes).result
    IN  [encrypted_data |-> encrypted_data,
         mac |-> create_mac(mac_key, encrypted_data)]

\* SecureMessage::decrypt, lines 343-358; nonce_bytes is what thread_rng
\* gave to from_key
SecureMessage_decrypt(sm, encryption_key, mac_key, nonce_bytes) ==
    IF ~verify_mac(mac_key, sm.encrypted_data, sm.mac)
    THEN [ok |-> FALSE, error |-> "MAC verification failed",
          plaintext |-> << >>, cipher_ran |-> FALSE]
    ELSE decrypt_message(EncryptionEngine_from_key(encryption_key, nonce_bytes),
                         sm.encrypted_data)

\* len().to_be_bytes() of a usize that is width bytes wide (4 or 8)
usize_to_be_bytes(n, width) == Repeat(0, width - 4) \o u32_to_be_bytes(u32(n))

\* SecureMessage::to_bytes, lines 361-367, on a target whose usize has
\* width bytes
SecureMessage_to_bytes(sm, width) ==
    usize_to_be_bytes(Len(sm.encrypted_data), width) \o sm.encrypted_data \o sm.mac

NoSecureMessage == [encrypted_data |-> << >>, mac |-> << >>]

\* SecureMessage::from_bytes, lines 370-384; a slice index beyond the data
\* panics
SecureMessage_from_bytes(data) ==
    IF Len(data) < 4 + 32
    THEN [status |-> "Err", sm |-> NoSecureMessage]
    ELSE LET length == u32_from_be_bytes(SubSeq(data, 1, 4))
         IN  IF usize_lt_u32(Len(data) - 4, length)
             THEN [status |-> "Panic", sm |-> NoSecureMessage]
             ELSE IF 4 + usize(length) + 32 > Len(data)
             THEN [status |-> "Panic", sm |-> NoSecureMessage]
             ELSE [status |-> "Ok",
                   sm |-> [encrypted_data |-> SubSeq(data, 5, 4 + usize(length)),
                           mac |-> SubSeq(data, 5 + usize(length),
                                          4 + usize(length) + 32)]]

(***************************************************************************)
(* SpecSM: one secure message.  It is sealed by SecureMessage::encrypt,    *)
(* possibly altered in one bit on its way, and opened by decrypt; or it is *)
(* written by to_bytes and read by from_bytes.                             *)
(***************************************************************************)
Plaintexts == {<< >>, << 72 >>, << 72, 105 >>}
\* [u8; 32] keys and what thread_rng gives for a [u8; 12] nonce
Keys == {Repeat(1, 32), Repeat(2, 32)}
Nonces == {Repeat(0, 12), Repeat(9, 12)}
\* bytes of usize on the build target
UsizeBytes == {4, 8}

FlipBit(byte, bit) ==
    IF (byte \div (2 ^ bit)) % 2 = 1 THEN byte - 2 ^ bit ELSE byte + 2 ^ bit

NoOpened == [ok |-> FALSE, error |-> "None", plaintext |-> << >>, cipher_ran |-> FALSE]

InitSM ==
    /\ chan = [m \in Managers |-> << >>]
    /\ stats = [m \in Managers |-> [messages_received |-> 0]]
    /\ task = [t \in Tasks |-> IdleTask]
    /\ network_manager = 0
    /\ lock = [writer |-> 0, readers |-> {}]
    /\ listener = [p \in Ports |-> 0]
    /\ clients = [p \in Ports |-> {}]
    /\ conn = [c \in Conns |-> FreeConn]
    /\ ret = NoRet
    /\ mgr = [m \in Managers |-> Unborn]
    /\ left = [conns |-> 0, frames |-> 0, sends |-> 0]
    /\ \E plaintext \in Plaintexts, encryption_key \in Keys, mac_key \in Keys,
          width \in UsizeBytes :
          codec = [pc |-> "plain", usize_bytes |-> width, plaintext |-> plaintext,
                   encryption_key |-> encryption_key, mac_key |-> mac_key,
                   sealed |-> NoSecureMessage, sm |-> NoSecureMessage,
                   opened_with |-> << >>, opened |-> NoOpened,
                   bytes |-> << >>,
                   parsed |-> [status |-> "None", sm |-> NoSecureMessage]]

\* SecureMessage::encrypt(plaintext, encryption_key, mac_key)
SMEncrypt(nonce_bytes) ==
    /\ codec.pc = "plain"
    /\ LET sm == SecureMessage_encrypt(codec.plaintext, codec.encryption_key,
                                       codec.mac_key, nonce_bytes)
       IN  codec' = [codec EXCEPT !.pc = "sealed", !.sealed = sm, !.sm = sm]
    /\ UNCHANGED << mgr, chan, stats, task, left, network_manager, lock, listener,
                    clients, conn, ret >>

\* one bit of the encrypted bytes (field 1) or of the MAC (field 2) changes
SMFlipBit(field, i, bit) ==
    /\ codec.pc = "sealed"
    /\ codec.sm = codec.sealed
    /\ IF field = 1
       THEN /\ i \in 1..Len(codec.sm.encrypted_data)
            /\ codec' = [codec EXCEPT !.sm.encrypted_data[i] = FlipBit(@, bit)]
       ELSE /\ i \in 1..Len(codec.sm.mac)
            /\ codec' = [codec EXCEPT !.sm.mac[i] = FlipBit(@, bit)]
    /\ UNCHANGED << mgr, chan, stats, task, left, network_manager, lock, listener,
                    clients, conn, ret >>

\* sm.decrypt(encryption_key, mac_key)
SMDecrypt(encryption_key, mac_key, nonce_bytes) ==
    /\ codec.pc = "sealed"
    /\ codec' = [codec EXCEPT
                   !.pc = "opened",
                   !.opened_with = << encryption_key, mac_key >>,
                   !.opened = SecureMessage_decrypt(codec.sm, encryption_key,
                                                    mac_key, nonce_bytes)]
    /\ UNCHANGED << mgr, chan, stats, task, left, network_manager, lock, listener,
                    clients, conn, ret >>

\* sm.to_bytes()
SMToBytes ==
    /\ codec.pc = "sealed"
    /\ codec' = [codec EXCEPT
                   !.pc = "bytes",
                   !.bytes = SecureMessage_to_bytes(codec.sm, codec.usize_bytes)]
    /\ UNCHANGED << mgr, chan, stats, task, left, network_manager, lock, listener,
                    clients, conn, ret >>

\* SecureMessage::from_bytes(bytes)
SMFromBytes ==
    /\ codec.pc = "bytes"
    /\ codec' = [codec EXCEPT !.pc = "parsed",
                              !.parsed = SecureMessage_from_bytes(codec.bytes)]
    /\ UNCHANGED << mgr, chan, stats, task, left, network_manager, lock, listener,
                    clients, conn, ret >>

NextSM ==
    \/ \E nonce_bytes \in Nonces : SMEncrypt(nonce_bytes)
    \/ \E field \in {1, 2}, i \in 1..32, bit \in {0, 7} : SMFlipBit(field, i, bit)
    \/ \E encryption_key \in Keys, mac_key \in Keys, nonce_bytes \in Nonces :
          SMDecrypt(encryption_key, mac_key, nonce_bytes)
    \/ SMToBytes
    \/ SMFromBytes

SpecSM == InitSM /\ [][NextSM]_vars

(***************************************************************************)
(* Key exchange.  The p256 crate is modelled by a small group that keeps   *)
(* the contract of ECDH: a public key is the generator raised to the       *)
(* private key, and diffie_hellman raises the peer's public key to the     *)
(* own private key.  The group is the powers of 6 modulo 251.              *)
(***************************************************************************)
RECURSIVE GroupPow(_, _)
GroupPow(base, exponent) ==
    IF exponent = 0 THEN 1 ELSE (GroupPow(base, exponent - 1) * base) % 251

\* PublicKey::from(&private_key)
PublicKey_from(private_key) == GroupPow(6, private_key)

\* faulty variant: the two keys are added, not combined in the group
diffie_hellman_Sum(private_key, peer_public_key) ==
    (private_key + peer_public_key) % 251

\* private_key.diffie_hellman(peer_public_key)
diffie_hellman(private_key, peer_public_key) ==
    GroupPow(peer_public_key, private_key)

\* raw_secret_bytes(): the 32 bytes of the shared value, big-endian
raw_secret_bytes(secret) == Repeat(0, 31) \o << secret >>

\* what thread_rng gives to EphemeralSecret::random
PrivateKeys == {2, 3}

NoKeyPair == [private_key |-> 0, public_key |-> 0]

\* KeyPair::generate, lines 159-167; private_key is what thread_rng gave
KeyPair_generate(private_key) ==
    [private_key |-> private_key, public_key |-> PublicKey_from(private_key)]

\* impl Clone for KeyPair, lines 31-43: a new random key pair
KeyPair_clone(key_pair, new_private_key) == KeyPair_generate(new_private_key)

\* KeyPair::derive_key, lines 191-201
derive_key(secret_bytes, info) ==
    Sha256(secret_bytes \o Label(info) \o Label("tcp-messenger-v1"))

NoSecret == [encryption_key |-> << >>, mac_key |-> << >>, created_at |-> 0]

\* KeyPair::perform_key_exchange, lines 175-188
KeyPair_perform_key_exchange(key_pair, peer_public_key, now) ==
    LET shared_secret_bytes ==
            raw_secret_bytes(diffie_hellman(key_pair.private_key, peer_public_key))
    IN  [encryption_key |-> derive_key(shared_secret_bytes, "encryption"),
         mac_key |-> derive_key(shared_secret_bytes, "mac"),
         created_at |-> now]

(***************************************************************************)
(* KeyExchangeManager: key_pairs and shared_secrets are maps from peer id; *)
(* a peer without entry maps to NoKeyPair, NoSecret.  Each method is a     *)
(* function from the manager to the manager after the call and the result. *)
(***************************************************************************)
PeerIds == {1, 2}

\* SecurityConfig::default().key_rotation_interval
key_rotation_interval == 100

\* KeyExchangeManager::new, lines 224-230
KeyExchangeManager_new(interval) ==
    [key_pairs |-> [p \in PeerIds |-> NoKeyPair],
     shared_secrets |-> [p \in PeerIds |-> NoSecret],
     key_rotation_interval |-> interval]

\* generate_key_pair, lines 233-237: the clone is stored, the pair returned
KXM_generate_key_pair(kxm, peer_id, private_key, new_private_key) ==
    LET key_pair == KeyPair_generate(private_key)
    IN  [kxm |-> [kxm EXCEPT !.key_pairs[peer_id] =
                                KeyPair_clone(key_pair, new_private_key)],
         res |-> "Ok", key_pair |-> key_pair]

\* get_public_key, lines 240-244
KXM_get_public_key(kxm, peer_id) ==
    IF kxm.key_pairs[peer_id] = NoKeyPair
    THEN [kxm |-> kxm, res |-> "Err", public_key |-> 0]
    ELSE [kxm |-> kxm, res |-> "Ok",
          public_key |-> kxm.key_pairs[peer_id].public_key]

\* faulty variant: a missing key pair is made up and the secret stored
KXM_perform_key_exchange_Insert(kxm, peer_id, peer_public_key, now) ==
    LET key_pair == IF kxm.key_pairs[peer_id] = NoKeyPair
                    THEN KeyPair_generate(2) ELSE kxm.key_pairs[peer_id]
        secret == KeyPair_perform_key_exchange(key_pair, peer_public_key, now)
    IN  [kxm |-> [kxm EXCEPT !.shared_secrets[peer_id] = secret],
         res |-> "Ok", shared_secret |-> secret]

\* perform_key_exchange, lines 247-258
KXM_perform_key_exchange(kxm, peer_id, peer_public_key, now) ==
    IF kxm.key_pairs[peer_id] = NoKeyPair
    THEN [kxm |-> kxm, res |-> "Err", shared_secret |-> NoSecret]
    ELSE LET secret ==
                 KeyPair_perform_key_exchange(kxm.key_pairs[peer_id],
                                              peer_public_key, now)
         IN  [kxm |-> [kxm EXCEPT !.shared_secrets[peer_id] = secret],
              res |-> "Ok", shared_secret |-> secret]

\* get_shared_secret, lines 261-264
KXM_get_shared_secret(kxm, peer_id) ==
    IF kxm.shared_secrets[peer_id] = NoSecret
    THEN [kxm |-> kxm, res |-> "Err", shared_secret |-> NoSecret]
    ELSE [kxm |-> kxm, res |-> "Ok", shared_secret |-> kxm.shared_secrets[peer_id]]

\* remove_peer, lines 267-270
KXM_remove_peer(kxm, peer_id) ==
    [kxm |-> [kxm EXCEPT !.key_pairs[peer_id] = NoKeyPair,
                         !.shared_secrets[peer_id] = NoSecret],
     res |-> "Ok"]

(***************************************************************************)
(* SpecKX: a KeyExchangeManager and its caller, and one remote peer with a *)
(* key pair of its own.  The caller keeps the pair generate_key_pair       *)
(* returned (handed) and sends one of its public keys to the remote peer;  *)
(* used records which public keys a stored secret was derived from.        *)
(***************************************************************************)
PublicKeys == {PublicKey_from(k) : k \in PrivateKeys}
NoUse == [own_public |-> 0, peer_public |-> 0]

InitKX ==
    /\ chan = [m \in Managers |-> << >>]
    /\ stats = [m \in Managers |-> [messages_received |-> 0]]
    /\ task = [t \in Tasks |-> IdleTask]
    /\ network_manager = 0
    /\ lock = [writer |-> 0, readers |-> {}]
    /\ listener = [p \in Ports |-> 0]
    /\ clients = [p \in Ports |-> {}]
    /\ conn = [c \in Conns |-> FreeConn]
    /\ ret = NoRet
    /\ mgr = [m \in Managers |-> Unborn]
    /\ left = [conns |-> 0, frames |-> 0, sends |-> 0]
    /\ \E peer_id \in PeerIds, private_key \in PrivateKeys :
          codec = [kxm |-> KeyExchangeManager_new(key_rotation_interval),
                   now |-> 0,
                   handed |-> [p \in PeerIds |-> NoKeyPair],
                   used |-> [p \in PeerIds |-> NoUse],
                   remote |-> [peer_id |-> peer_id,
                               key_pair |-> KeyPair_generate(private_key),
                               shared_secret |-> NoSecret, used |-> NoUse],
                   last |-> [op |-> "new", res |-> "Ok"]]

KXGenerateKeyPair(peer_id, private_key, new_private_key) ==
    /\ LET r == KXM_generate_key_pair(codec.kxm, peer_id, private_key, new_private_key)
       IN  codec' = [codec EXCEPT !.kxm = r.kxm,
                                  !.handed[peer_id] = r.key_pair,
                                  !.last = [op |-> "generate_key_pair", res |-> r.res]]
    /\ UNCHANGED << mgr, chan, stats, task, left, network_manager, lock, listener,
                    clients, conn, ret >>

KXGetPublicKey(peer_id) ==
    /\ LET r == KXM_get_public_key(codec.kxm, peer_id)
       IN  codec' = [codec EXCEPT !.kxm = r.kxm,
                                  !.last = [op |-> "get_public_key", res |-> r.res]]
    /\ UNCHANGED << mgr, chan, stats, task, left, network_manager, lock, listener,
                    clients, conn, ret >>

KXPerformKeyExchange(peer_id, peer_public_key) ==
    /\ LET r == KXM_perform_key_exchange(codec.kxm, peer_id, peer_public_key, codec.now)
       IN  codec' = [codec EXCEPT
                       !.kxm = r.kxm,
                       !.used[peer_id] =
                           IF r.res = "Ok"
                           THEN [own_public |-> codec.kxm.key_pairs[peer_id].public_key,
                                 peer_public |-> peer_public_key]
                           ELSE @,
                       !.last = [op |-> "perform_key_exchange", res |-> r.res]]
    /\ UNCHANGED << mgr, chan, stats, task, left, network_manager, lock, listener,
                    clients, conn, ret >>

KXGetSharedSecret(peer_id) ==
    /\ LET r == KXM_get_shared_secret(codec.kxm, peer_id)
       IN  codec' = [codec EXCEPT !.kxm = r.kxm,
                                  !.last = [op |-> "get_shared_secret", res |-> r.res]]
    /\ UNCHANGED << mgr, chan, stats, task, left, network_manager, lock, listener,
                    clients, conn, ret >>

KXRemovePeer(peer_id) ==
    /\ LET r == KXM_remove_peer(codec.kxm, peer_id)
       IN  codec' = [codec EXCEPT !.kxm = r.kxm,
                                  !.used[peer_id] = NoUse,
                                  !.last = [op |-> "remove_peer", res |-> r.res]]
    /\ UNCHANGED << mgr, chan, stats, task, left, network_manager, lock, listener,
                    clients, conn, ret >>

\* the public keys the caller can send to the remote peer: that of the pair
\* it was handed, or what get_public_key returns
PublicKeysFor(peer_id) ==
    {codec.handed[peer_id].public_key, codec.kxm.key_pairs[peer_id].public_key}
    \ {NoKeyPair.public_key}

\* the remote peer derives its secret from a public key it received
KXRemoteExchange(public_key) ==
    /\ public_key \in PublicKeysFor(codec.remote.peer_id)
    /\ codec' = [codec EXCEPT
                   !.remote.shared_secret =
                       KeyPair_perform_key_exchange(codec.remote.key_pair,
                                                    public_key, codec.now),
                   !.remote.used = [own_public |-> codec.remote.key_pair.public_key,
                                    peer_public |-> public_key]]
    /\ UNCHANGED << mgr, chan, stats, task, left, network_manager, lock, listener,
                    clients, conn, ret >>

NextKX ==
    \/ \E peer_id \in PeerIds, private_key \in PrivateKeys,
          new_private_key \in PrivateKeys :
          KXGenerateKeyPair(peer_id, private_key, new_private_key)
    \/ \E peer_id \in PeerIds : KXGetPublicKey(peer_id)
    \/ \E peer_id \in PeerIds, peer_public_key \in PublicKeys :
          KXPerformKeyExchange(peer_id, peer_public_key)
    \/ \E peer_id \in PeerIds : KXGetSharedSecret(peer_id)
    \/ \E peer_id \in PeerIds : KXRemovePeer(peer_id)
    \/ \E public_key \in PublicKeys : KXRemoteExchange(public_key)

SpecKX == InitKX /\ [][NextKX]_vars

(***************************************************************************)
(* SpecEng: one EncryptionEngine and its caller.  since counts the calls   *)
(* of encrypt_message that returned since the engine was created or        *)
(* rotate_key was last called; flag is what should_rotate_key last said.   *)
(***************************************************************************)
\* faulty variant: the flag is raised one message late
should_rotate_key_Late(engine) ==
    engine.key_rotation_counter > max_messages_per_key

\* should_rotate_key, lines 135-137
should_rotate_key(engine) ==
    engine.key_rotation_counter >= max_messages_per_key

\* rotate_key, lines 140-149; key_bytes is what thread_rng gave
rotate_key(engine, key_bytes) ==
    [engine EXCEPT !.key = key_bytes, !.key_rotation_counter = 0]

InitEng ==
    /\ chan = [m \in Managers |-> << >>]
    /\ stats = [m \in Managers |-> [messages_received |-> 0]]
    /\ task = [t \in Tasks |-> IdleTask]
    /\ network_manager = 0
    /\ lock = [writer |-> 0, readers |-> {}]
    /\ listener = [p \in Ports |-> 0]
    /\ clients = [p \in Ports |-> {}]
    /\ conn = [c \in Conns |-> FreeConn]
    /\ ret = NoRet
    /\ mgr = [m \in Managers |-> Unborn]
    /\ left = [conns |-> 0, frames |-> 0, sends |-> 0]
    /\ \E key \in Keys, nonce_bytes \in Nonces :
          codec = [engine |-> EncryptionEngine_from_key(key, nonce_bytes),
                   since |-> 0, rotations |-> 0, flag |-> FALSE,
                   last |-> "new", result |-> << >>]

EngEncryptMessage(message, nonce_bytes) ==
    /\ codec.since < MaxEncrypts
    /\ LET r == encrypt_message(codec.engine, message, nonce_bytes)
       IN  codec' = [codec EXCEPT !.engine = r.engine, !.result = r.result,
                                  !.since = @ + 1, !.last = "encrypt_message"]
    /\ UNCHANGED << mgr, chan, stats, task, left, network_manager, lock, listener,
                    clients, conn, ret >>

EngShouldRotateKey ==
    /\ codec' = [codec EXCEPT !.flag = should_rotate_key(codec.engine),
                              !.last = "should_rotate_key"]
    /\ UNCHANGED << mgr, chan, stats, task, left, network_manager, lock, listener,
                    clients, conn, ret >>

EngRotateKey(key_bytes) ==
    /\ codec.rotations < MaxRotations
    /\ codec' = [codec EXCEPT !.engine = rotate_key(codec.engine, key_bytes),
                              !.since = 0, !.rotations = @ + 1,
                              !.result = << >>, !.last = "rotate_key"]
    /\ UNCHANGED << mgr, chan, stats, task, left, network_manager, lock, listener,
                    clients, conn, ret >>

NextEng ==
    \/ \E nonce_bytes \in Nonces : EngEncryptMessage(<< 72, 105 >>, nonce_bytes)
    \/ EngShouldRotateKey
    \/ \E key_bytes \in Keys : EngRotateKey(key_bytes)

SpecEng == InitEng /\ [][NextEng]_vars

(***************************************************************************)
(* SpecFB: SecureMessage::from_bytes alone, on byte strings that begin     *)
(* with a 4-byte big-endian length and go on with any number of bytes.     *)
(***************************************************************************)
\* the lengths a byte string declares in its first four bytes
DeclaredLengths == {u32(0), u32(1), u32(28), u32(29), u32(65536), U32Max}
\* the bytes that follow the four length bytes: 0 .. MaxBody of them
MaxBody == 64

InitFB ==
    /\ chan = [m \in Managers |-> << >>]
    /\ stats = [m \in Managers |-> [messages_received |-> 0]]
    /\ task = [t \in Tasks |-> IdleTask]
    /\ network_manager = 0
    /\ lock = [writer |-> 0, readers |-> {}]
    /\ listener = [p \in Ports |-> 0]
    /\ clients = [p \in Ports |-> {}]
    /\ conn = [c \in Conns |-> FreeConn]
    /\ ret = NoRet
    /\ mgr = [m \in Managers |-> Unborn]
    /\ left = [conns |-> 0, frames |-> 0, sends |-> 0]
    /\ \E length \in DeclaredLengths, n \in 0..MaxBody, cut \in 0..4 :
          codec = [pc |-> "bytes", declared |-> length,
                   bytes |-> SubSeq(u32_to_be_bytes(length), 1, 4 - cut)
                             \o (IF cut = 0 THEN Repeat(7, n) ELSE << >>),
                   parsed |-> [status |-> "None", sm |-> NoSecureMessage]]

\* SecureMessage::from_bytes(bytes)
FBFromBytes ==
    /\ codec.pc = "bytes"
    /\ codec' = [codec EXCEPT !.pc = "parsed",
                              !.parsed = SecureMessage_from_bytes(codec.bytes)]
    /\ UNCHANGED << mgr, chan, stats, task, left, network_manager, lock, listener,
                    clients, conn, ret >>

NextFB == FBFromBytes

SpecFB == InitFB /\ [][NextFB]_vars

(***************************************************************************)
(* SpecHB: one HeartbeatHandler and the monotonic clock behind Instant.    *)
(* Time is counted in ticks, TicksPerSecond of them to a second, so that   *)
(* the clock can stand between two whole seconds.                          *)
(***************************************************************************)
TicksPerSecond == 2
\* the clock stops at MaxNow ticks
MaxNow == 8
\* interval_seconds given to HeartbeatHandler::new
IntervalSeconds == {0, 1, 2}

\* Duration::from_secs(seconds), in ticks
Duration_from_secs(seconds) == seconds * TicksPerSecond

\* Instant::elapsed(): the time since the instant, zero if the clock is not
\* past it
Instant_elapsed(instant, now) == IF now >= instant THEN now - instant ELSE 0

\* HeartbeatHandler::new, lines 254-259
HeartbeatHandler_new(interval_seconds, now) ==
    [last_heartbeat |-> now, interval |-> Duration_from_secs(interval_seconds)]

should_send_heartbeat_Strict(handler, now) ==
    Instant_elapsed(handler.last_heartbeat, now) > handler.interval

\* HeartbeatHandler::should_send_heartbeat, lines 262-264
should_send_heartbeat(handler, now) ==
    Instant_elapsed(handler.last_heartbeat, now) >= handler.interval

\* HeartbeatHandler::update_heartbeat, lines 267-269
update_heartbeat(handler, now) == [handler EXCEPT !.last_heartbeat = now]

\* codec.since counts the ticks since the handler was created or last updated
InitHB ==
    /\ chan = [m \in Managers |-> << >>]
    /\ stats = [m \in Managers |-> [messages_received |-> 0]]
    /\ task = [t \in Tasks |-> IdleTask]
    /\ network_manager = 0
    /\ lock = [writer |-> 0, readers |-> {}]
    /\ listener = [p \in Ports |-> 0]
    /\ clients = [p \in Ports |-> {}]
    /\ conn = [c \in Conns |-> FreeConn]
    /\ ret = NoRet
    /\ mgr = [m \in Managers |-> Unborn]
    /\ left = [conns |-> 0, frames |-> 0, sends |-> 0]
    /\ \E interval_seconds \in IntervalSeconds, now \in 0..1 :
          codec = [handler |-> HeartbeatHandler_new(interval_seconds, now),
                   interval_seconds |-> interval_seconds,
                   now |-> now, since |-> 0, flag |-> FALSE, updates |-> 0,
                   last |-> "new"]

\* the clock advances by one tick
HBTick ==
    /\ codec.now < MaxNow
    /\ codec' = [codec EXCEPT !.now = @ + 1, !.since = @ + 1, !.last = "tick"]
    /\ UNCHANGED << mgr, chan, stats, task, left, network_manager, lock, listener,
                    clients, conn, ret >>

\* handler.should_send_heartbeat()
HBShouldSendHeartbeat ==
    /\ codec' = [codec EXCEPT
                   !.flag = should_send_heartbeat(codec.handler, codec.now),
                   !.last = "should_send_heartbeat"]
    /\ UNCHANGED << mgr, chan, stats, task, left, network_manager, lock, listener,
                    clients, conn, ret >>

\* handler.update_heartbeat()
HBUpdateHeartbeat ==
    /\ codec' = [codec EXCEPT
                   !.handler = update_heartbeat(codec.handler, codec.now),
                   !.since = 0, !.updates = IF @ < 1 THEN @ + 1 ELSE @,
                   !.last = "update_heartbeat"]
    /\ UNCHANGED << mgr, chan, stats, task, left, network_manager, lock, listener,
                    clients, conn, ret >>

NextHB ==
    \/ HBTick
    \/ HBShouldSendHeartbeat
    \/ HBUpdateHeartbeat

SpecHB == InitHB /\ [][NextHB]_vars

(***************************************************************************)
(* SpecRot: a KeyExchangeManager, its caller and the wall clock, in        *)
(* seconds.  The caller generates key pairs, performs key exchanges, asks  *)
(* needs_key_rotation and calls rotate_all_keys.                           *)
(***************************************************************************)
\* the wall clock stops at MaxClock seconds
MaxClock == 3
\* key_rotation_interval given to KeyExchangeManager::new
RotationIntervals == {1, 2}

\* SharedSecret::is_expired, lines 206-209
SharedSecret_is_expired(secret, max_age_seconds, now) ==
    now - secret.created_at > max_age_seconds

\* needs_key_rotation, lines 273-276
KXM_needs_key_rotation(kxm, now) ==
    \E p \in PeerIds :
        /\ kxm.shared_secrets[p] # NoSecret
        /\ SharedSecret_is_expired(kxm.shared_secrets[p],
                                   kxm.key_rotation_interval, now)

\* rotate_all_keys, lines 279-287: generate_key_pair for every peer that has
\* a shared secret; private_keys[p] and new_private_keys[p] are what
\* thread_rng gave to generate and to clone for peer p
KXM_rotate_all_keys(kxm, private_keys, new_private_keys) ==
    [kxm |-> [kxm EXCEPT !.key_pairs =
                 [p \in PeerIds |->
                     IF kxm.shared_secrets[p] # NoSecret
                     THEN KXM_generate_key_pair(kxm, p, private_keys[p],
                                                new_private_keys[p]).kxm.key_pairs[p]
                     ELSE kxm.key_pairs[p]]],
     res |-> "Ok"]

InitRot ==
    /\ chan = [m \in Managers |-> << >>]
    /\ stats = [m \in Managers |-> [messages_received |-> 0]]
    /\ task = [t \in Tasks |-> IdleTask]
    /\ network_manager = 0
    /\ lock = [writer |-> 0, readers |-> {}]
    /\ listener = [p \in Ports |-> 0]
    /\ clients = [p \in Ports |-> {}]
    /\ conn = [c \in Conns |-> FreeConn]
    /\ ret = NoRet
    /\ mgr = [m \in Managers |-> Unborn]
    /\ left = [conns |-> 0, frames |-> 0, sends |-> 0]
    /\ \E interval \in RotationIntervals :
          codec = [kxm |-> KeyExchangeManager_new(interval),
                   now |-> 0, flag |-> FALSE, was_needed |-> FALSE,
                   last |-> [op |-> "new", res |-> "Ok"]]

\* one second passes
RotTick ==
    /\ codec.now < MaxClock
    /\ codec' = [codec EXCEPT !.now = @ + 1, !.last = [op |-> "tick", res |-> "Ok"]]
    /\ UNCHANGED << mgr, chan, stats, task, left, network_manager, lock, listener,
                    clients, conn, ret >>

RotGenerateKeyPair(peer_id, private_key, new_private_key) ==
    /\ LET r == KXM_generate_key_pair(codec.kxm, peer_id, private_key, new_private_key)
       IN  codec' = [codec EXCEPT !.kxm = r.kxm,
                                  !.last = [op |-> "generate_key_pair", res |-> r.res]]
    /\ UNCHANGED << mgr, chan, stats, task, left, network_manager, lock, listener,
                    clients, conn, ret >>

RotPerformKeyExchange(peer_id, peer_public_key) ==
    /\ LET r == KXM_perform_key_exchange(codec.kxm, peer_id, peer_public_key, codec.now)
       IN  codec' = [codec EXCEPT !.kxm = r.kxm,
                                  !.last = [op |-> "perform_key_exchange", res |-> r.res]]
    /\ UNCHANGED << mgr, chan, stats, task, left, network_manager, lock, listener,
                    clients, conn, ret >>

\* kxm.needs_key_rotation()
RotNeedsKeyRotation ==
    /\ codec' = [codec EXCEPT
                   !.flag = KXM_needs_key_rotation(codec.kxm, codec.now),
                   !.last = [op |-> "needs_key_rotation", res |-> "Ok"]]
    /\ UNCHANGED << mgr, chan, stats, task, left, network_manager, lock, listener,
                    clients, conn, ret >>

\* kxm.rotate_all_keys(); was_needed keeps what needs_key_rotation would have
\* said just before
RotRotateAllKeys(private_keys, new_private_keys) ==
    /\ LET r == KXM_rotate_all_keys(codec.kxm, private_keys, new_private_keys)
       IN  codec' = [codec EXCEPT
                       !.kxm = r.kxm,
                       !.was_needed = KXM_needs_key_rotation(codec.kxm, codec.now),
                       !.last = [op |-> "rotate_all_keys", res |-> r.res]]
    /\ UNCHANGED << mgr, chan, stats, task, left, network_manager, lock, listener,
                    clients, conn, ret >>

NextRot ==
    \/ RotTick
    \/ \E peer_id \in PeerIds, private_key \in PrivateKeys,
          new_private_key \in PrivateKeys :
          RotGenerateKeyPair(peer_id, private_key, new_private_key)
    \/ \E peer_id \in PeerIds, peer_public_key \in PublicKeys :
          RotPerformKeyExchange(peer_id, peer_public_key)
    \/ RotNeedsKeyRotation
    \/ \E private_keys \in [PeerIds -> PrivateKeys],
          new_private_keys \in [PeerIds -> PrivateKeys] :
          RotRotateAllKeys(private_keys, new_private_keys)

SpecRot == InitRot /\ [][NextRot]_vars

(***************************************************************************)
(* SpecDisc: one call of NetworkDiscovery::discover_servers.  The socket   *)
(* is bound and the ClientRequest sent; the call is in its receive loop.   *)
(* The clock counts seconds.  Datagrams arrive from the network at any     *)
(* time; recv_from returns a datagram, an error, or the read timeout,      *)
(* which std reports as WouldBlock on Unix and as TimedOut on Windows.     *)
(***************************************************************************)
\* self.timeout in seconds; set_read_timeout rejects a zero duration
DiscoveryTimeouts == {0, 2, 3}
\* datagrams and receive errors one call gets
MaxDatagrams == 3
ServerIds == {1, 2}
DiscoveryKinds == {"ServerAnnounce", "ClientRequest", "ServerResponse"}
Platforms == {"unix", "windows"}

\* what arrives on the socket: a serialized DiscoveryMessage sent at time
\* timestamp, or bytes that are none
Datagrams(timestamp) ==
    [valid : {TRUE}, message_type : DiscoveryKinds, server_id : ServerIds,
     server_port : {DefaultPort}, timestamp : {timestamp}]
    \cup {[valid |-> FALSE, message_type |-> "None", server_id |-> 0,
           server_port |-> 0, timestamp |-> 0]}

\* lines 142-161: what one received datagram does to discovered_servers
DiscoverOne(discovered_servers, datagram, addr, now) ==
    IF /\ datagram.valid
       /\ datagram.message_type \in {"ServerResponse", "ServerAnnounce"}
       /\ ~\E i \in 1..Len(discovered_servers) :
              discovered_servers[i].id = datagram.server_id
    THEN Append(discovered_servers,
                [id |-> datagram.server_id, address |-> addr,
                 port |-> datagram.server_port,
                 discovered_at |-> now, last_seen |-> now])
    ELSE discovered_servers

NotHeard == [announces |-> 0, seen |-> FALSE, first |-> 0, last |-> 0]

\* lines 128-133; heard keeps, for each server id, how many ServerAnnounce
\* datagrams the call received and when it first and last received a
\* ServerAnnounce or ServerResponse of that id
InitDisc ==
    /\ chan = [m \in Managers |-> << >>]
    /\ stats = [m \in Managers |-> [messages_received |-> 0]]
    /\ task = [t \in Tasks |-> IdleTask]
    /\ network_manager = 0
    /\ lock = [writer |-> 0, readers |-> {}]
    /\ listener = [p \in Ports |-> 0]
    /\ clients = [p \in Ports |-> {}]
    /\ conn = [c \in Conns |-> FreeConn]
    /\ ret = NoRet
    /\ mgr = [m \in Managers |-> Unborn]
    /\ left = [conns |-> 0, frames |-> 0, sends |-> 0]
    /\ \E timeout \in DiscoveryTimeouts, platform \in Platforms :
          codec = [pc |-> IF timeout = 0 THEN "done" ELSE "loop",
                   res |-> IF timeout = 0 THEN "Network" ELSE "None",
                   timeout |-> timeout, platform |-> platform,
                   start_time |-> 0, now |-> 0, deadline |-> 0,
                   received |-> 0,
                   discovered_servers |-> << >>,
                   heard |-> [id \in ServerIds |-> NotHeard]]

\* line 135: the loop condition; true: recv_from starts and will time out
\* self.timeout from now; false: the call returns its list
DiscLoopCheck ==
    /\ codec.pc = "loop"
    /\ IF codec.now - codec.start_time < codec.timeout
       THEN codec' = [codec EXCEPT !.pc = "recv",
                                   !.deadline = codec.now + codec.timeout]
       ELSE codec' = [codec EXCEPT !.pc = "done", !.res = "Ok"]
    /\ UNCHANGED << mgr, chan, stats, task, left, network_manager, lock, listener,
                    clients, conn, ret >>

\* a second passes while recv_from waits
DiscTick ==
    /\ codec.pc = "recv"
    /\ codec.now < codec.deadline
    /\ codec' = [codec EXCEPT !.now = @ + 1]
    /\ UNCHANGED << mgr, chan, stats, task, left, network_manager, lock, listener,
                    clients, conn, ret >>

\* lines 139-163: recv_from returns a datagram before its timeout
DiscRecvDatagram(datagram) ==
    /\ codec.pc = "recv"
    /\ codec.now < codec.deadline
    /\ codec.received < MaxDatagrams
    /\ LET id == datagram.server_id
           counts == datagram.valid
                     /\ datagram.message_type \in {"ServerResponse", "ServerAnnounce"}
       IN  codec' = [codec EXCEPT
              !.pc = "loop",
              !.received = @ + 1,
              !.discovered_servers = DiscoverOne(@, datagram, "10.0.0.1", codec.now),
              !.heard = IF counts
                        THEN [@ EXCEPT ![id] =
                                [announces |-> IF datagram.message_type = "ServerAnnounce"
                                               THEN @.announces + 1 ELSE @.announces,
                                 seen |-> TRUE,
                                 first |-> IF @.seen THEN @.first ELSE codec.now,
                                 last |-> codec.now]]
                        ELSE @]
    /\ UNCHANGED << mgr, chan, stats, task, left, network_manager, lock, listener,
                    clients, conn, ret >>

\* lines 164-169: the read timeout ends recv_from; TimedOut breaks the loop,
\* WouldBlock is any other error and goes round the loop
DiscRecvTimeout ==
    /\ codec.pc = "recv"
    /\ codec.now = codec.deadline
    /\ IF codec.platform = "windows"
       THEN codec' = [codec EXCEPT !.pc = "done", !.res = "Ok"]
       ELSE codec' = [codec EXCEPT !.pc = "loop"]
    /\ UNCHANGED << mgr, chan, stats, task, left, network_manager, lock, listener,
                    clients, conn, ret >>

\* lines 167-169: recv_from fails with another error
DiscRecvError ==
    /\ codec.pc = "recv"
    /\ codec.now < codec.deadline
    /\ codec.received < MaxDatagrams
    /\ codec' = [codec EXCEPT !.pc = "loop", !.received = @ + 1]
    /\ UNCHANGED << mgr, chan, stats, task, left, network_manager, lock, listener,
                    clients, conn, ret >>

NextDisc ==
    \/ DiscLoopCheck
    \/ DiscTick
    \/ \E datagram \in Datagrams(codec.now) : DiscRecvDatagram(datagram)
    \/ DiscRecvTimeout
    \/ DiscRecvError

SpecDisc == InitDisc /\ [][NextDisc]_vars

(***************************************************************************)
(* SpecAnn: a server that calls start_server_announcement, and the         *)
(* network around its UDP socket.  inbox is what has arrived on the socket *)
(* and waits to be read by recv_from; sent is what went out through        *)
(* send_to.  The task spawned at lines 85-93 broadcasts the announcement;  *)
(* handle_discovery_messages (lines 178-222) has no caller in the crate,   *)
(* so no step of the server reads the socket.                              *)
(***************************************************************************)
\* announcements one run broadcasts, and ClientRequests it gets
MaxAnnounces == 2
MaxRequests == 3
\* broadcast_port of the service; announcements go to port 9000
BroadcastPorts == {9000, 9001}
RequesterAddrs == {"10.0.0.2", "10.0.0.3"}
Broadcast == "255.255.255.255"

\* Uuid::new_v4() of the server, and its TCP port
AnnServerId == 1
\* Uuid::new_v4() of a discovering client, line 112
RequestIds == {11, 12}

\* line 110-116: the ClientRequest a discovering client broadcasts
ClientRequestMessage(request_id) ==
    [message_type |-> "ClientRequest", server_id |-> request_id, server_port |-> 0]

\* lines 73-79
AnnounceMessage(server_id, server_port) ==
    [message_type |-> "ServerAnnounce", server_id |-> server_id,
     server_port |-> server_port]

InitAnn ==
    /\ chan = [m \in Managers |-> << >>]
    /\ stats = [m \in Managers |-> [messages_received |-> 0]]
    /\ task = [t \in Tasks |-> IdleTask]
    /\ network_manager = 0
    /\ lock = [writer |-> 0, readers |-> {}]
    /\ listener = [p \in Ports |-> 0]
    /\ clients = [p \in Ports |-> {}]
    /\ conn = [c \in Conns |-> FreeConn]
    /\ ret = NoRet
    /\ mgr = [m \in Managers |-> Unborn]
    /\ left = [conns |-> 0, frames |-> 0, sends |-> 0]
    /\ \E broadcast_port \in BroadcastPorts :
          codec = [pc |-> "new", res |-> "None",
                   broadcast_port |-> broadcast_port,
                   server_id |-> AnnServerId, server_port |-> DefaultPort,
                   announce_message |-> AnnounceMessage(0, 0),
                   announces |-> 0, requests |-> 0,
                   inbox |-> << >>, sent |-> << >>]

\* start_server_announcement, lines 60-97: bind the socket (bind_ok says
\* whether the port is free), spawn the announcement task, return
AnnStart(bind_ok) ==
    /\ codec.pc = "new"
    /\ IF bind_ok
       THEN codec' = [codec EXCEPT
                        !.pc = "announcing", !.res = "Ok",
                        !.announce_message =
                            AnnounceMessage(codec.server_id, codec.server_port)]
       ELSE codec' = [codec EXCEPT !.pc = "failed", !.res = "Network"]
    /\ UNCHANGED << mgr, chan, stats, task, left, network_manager, lock, listener,
                    clients, conn, ret >>

\* lines 86-92 and broadcast_announcement, lines 225-235: one turn of the
\* announcement loop; a socket bound to port 9000 gets its own broadcast
AnnBroadcast ==
    /\ codec.pc = "announcing"
    /\ codec.announces < MaxAnnounces
    /\ LET datagram == [to |-> Broadcast, port |-> 9000,
                        message |-> codec.announce_message]
       IN  codec' = [codec EXCEPT
                       !.announces = @ + 1,
                       !.sent = Append(@, datagram),
                       !.inbox = IF codec.broadcast_port = 9000
                                 THEN Append(@, [from |-> "self",
                                                 message |-> codec.announce_message])
                                 ELSE @]
    /\ UNCHANGED << mgr, chan, stats, task, left, network_manager, lock, listener,
                    clients, conn, ret >>

\* a discovering client at addr broadcasts its ClientRequest (lines 110-124)
\* and the datagram arrives on the server's socket
AnnClientRequest(addr, request_id) ==
    /\ codec.pc = "announcing"
    /\ codec.requests < MaxRequests
    /\ codec' = [codec EXCEPT
                   !.requests = @ + 1,
                   !.inbox = Append(@, [from |-> addr,
                                        message |-> ClientRequestMessage(request_id)])]
    /\ UNCHANGED << mgr, chan, stats, task, left, network_manager, lock, listener,
                    clients, conn, ret >>

NextAnn ==
    \/ \E bind_ok \in BOOLEAN : AnnStart(bind_ok)
    \/ AnnBroadcast
    \/ \E addr \in RequesterAddrs, request_id \in RequestIds :
          AnnClientRequest(addr, request_id)

SpecAnn == InitAnn /\ [][NextAnn]_vars

\* the tokio runtime runs the spawned announcement task
FairSpecAnn == SpecAnn /\ WF_vars(AnnBroadcast)

(***************************************************************************)
(* Spec: the Tauri commands on AppState.  A command takes the RwLock of    *)
(* network_manager when it gets to it and holds the guard until it         *)
(* returns; tokio's RwLock admits one writer or any number of readers.     *)
(***************************************************************************)
WriteLockFree == lock.writer = 0 /\ lock.readers = {}
ReadLockFree == lock.writer = 0

UnbornManagers == {m \in Managers : mgr[m].life = "none"}
NextManager == CHOOSE m \in UnbornManagers : \A n \in UnbornManagers : m <= n

\* dropping a NetworkManager drops the receiver and the messages queued in it
DropManager(manager) == [manager EXCEPT !.life = "dropped"]

\* commands/server.rs start_server, lines 15-22: take the write guard, check
\* the slot, create a manager; then suspended in TcpListener::bind
CmdStartServerBegin(t, port_arg) ==
    /\ task[t].pc = "idle"
    /\ WriteLockFree
    /\ IF network_manager # 0
       THEN /\ ret' = [op |-> "cmd_start_server", m |-> network_manager,
                       res |-> "AlreadyConnected"]
            /\ UNCHANGED << mgr, task, lock >>
       ELSE /\ UnbornManagers # {}
            /\ mgr' = [mgr EXCEPT ![NextManager] = NetworkManager_new]
            /\ task' = [task EXCEPT ![t] =
                          [IdleTask EXCEPT !.op = "cmd_start_server", !.pc = "bind",
                                           !.m = NextManager, !.port = port_arg]]
            /\ lock' = [lock EXCEPT !.writer = t]
            /\ ret' = NoRet
    /\ UNCHANGED << codec, chan, stats, left, network_manager, listener, clients, conn >>

\* lines 23-30: manager.start_server returns; store the manager or drop it
CmdStartServerFinish(t) ==
    /\ task[t].pc = "bind"
    /\ LET m == task[t].m
           r == NM_start_server(m, task[t].port)
       IN  /\ ret' = [op |-> "cmd_start_server", m |-> m, res |-> r.res]
           /\ IF r.res = "Ok"
              THEN /\ mgr' = [mgr EXCEPT ![m] = r.manager]
                   /\ SpawnAcceptLoop(m, PortOf(task[t].port))
                   /\ network_manager' = m
              ELSE /\ mgr' = [mgr EXCEPT ![m] = DropManager(r.manager)]
                   /\ UNCHANGED << listener, clients, network_manager >>
    /\ task' = [task EXCEPT ![t] = IdleTask]
    /\ lock' = [lock EXCEPT !.writer = 0]
    /\ UNCHANGED << codec, chan, stats, left, conn >>

\* commands/client.rs connect_to_server, lines 16-23; then suspended in
\* TcpStream::connect
CmdConnectBegin(t, address, port) ==
    /\ task[t].pc = "idle"
    /\ WriteLockFree
    /\ IF network_manager # 0
       THEN /\ ret' = [op |-> "cmd_connect_to_server", m |-> network_manager,
                       res |-> "AlreadyConnected"]
            /\ UNCHANGED << mgr, task, lock >>
       ELSE /\ UnbornManagers # {}
            /\ mgr' = [mgr EXCEPT ![NextManager] = NetworkManager_new]
            /\ task' = [task EXCEPT ![t] =
                          [IdleTask EXCEPT !.op = "cmd_connect_to_server",
                                           !.pc = "connect",
                                           !.m = NextManager,
                                           !.address = address, !.port = port]]
            /\ lock' = [lock EXCEPT !.writer = t]
            /\ ret' = NoRet
    /\ UNCHANGED << codec, chan, stats, left, network_manager, listener, clients, conn >>

\* lines 24-31; a panic unwinds the command: the guard and the manager are
\* dropped and the caller gets no result
CmdConnectFinish(t) ==
    /\ task[t].pc = "connect"
    /\ LET m == task[t].m
           r == NM_connect_to_server(m, task[t].address, task[t].port)
       IN  /\ ret' = [op |-> "cmd_connect_to_server", m |-> m, res |-> r.res]
           /\ IF r.res = "Ok"
              THEN /\ mgr' = [mgr EXCEPT ![m] = r.manager]
                   /\ OpenAndDropStream(m, task[t].port)
                   /\ network_manager' = m
              ELSE /\ mgr' = [mgr EXCEPT ![m] = DropManager(r.manager)]
                   /\ UNCHANGED << conn, left, network_manager >>
    /\ task' = [task EXCEPT ![t] = IdleTask]
    /\ lock' = [lock EXCEPT !.writer = 0]
    /\ UNCHANGED << codec, chan, stats, listener, clients >>

\* commands/server.rs stop_server, lines 33-47: the manager is taken out of
\* the slot, asked to stop, and dropped when the command returns
CmdStopServer(t) ==
    /\ task[t].pc = "idle"
    /\ WriteLockFree
    /\ IF network_manager = 0
       THEN /\ ret' = [op |-> "cmd_stop_server", m |-> 0, res |-> "NotConnected"]
            /\ UNCHANGED << mgr, chan, network_manager >>
       ELSE LET m == network_manager
                r == NM_stop_server(m)
            IN  /\ network_manager' = 0
                /\ mgr' = [mgr EXCEPT ![m] = DropManager(r.manager)]
                /\ chan' = [chan EXCEPT ![m] = << >>]
                /\ ret' = [op |-> "cmd_stop_server", m |-> m, res |-> r.res]
    /\ UNCHANGED << codec, stats, task, left, lock, listener, clients, conn >>

\* commands/client.rs disconnect, lines 35-48
CmdDisconnect(t) ==
    /\ task[t].pc = "idle"
    /\ WriteLockFree
    /\ IF network_manager = 0
       THEN /\ ret' = [op |-> "cmd_disconnect", m |-> 0, res |-> "NotConnected"]
            /\ UNCHANGED << mgr, chan, network_manager >>
       ELSE LET m == network_manager
                r == NM_disconnect(m)
            IN  /\ network_manager' = 0
                /\ mgr' = [mgr EXCEPT ![m] = DropManager(r.manager)]
                /\ chan' = [chan EXCEPT ![m] = << >>]
                /\ ret' = [op |-> "cmd_disconnect", m |-> m, res |-> r.res]
    /\ UNCHANGED << codec, stats, task, left, lock, listener, clients, conn >>

\* commands/message.rs send_message, lines 16-25: create the message and
\* store it; the store (an external collaborator) accepts it or fails
CmdSendMessageStore(t, content, stored) ==
    /\ task[t].pc = "idle"
    /\ left.sends > 0
    /\ left' = [left EXCEPT !.sends = @ - 1]
    /\ IF stored
       THEN /\ task' = [task EXCEPT ![t] =
                          [IdleTask EXCEPT !.op = "cmd_send_message", !.pc = "lock",
                                           !.message = NewLocalMessage(content)]]
            /\ ret' = NoRet
       ELSE /\ ret' = [op |-> "cmd_send_message", m |-> 0, res |-> "Storage"]
            /\ UNCHANGED task
    /\ UNCHANGED << codec, mgr, chan, stats, network_manager, lock, listener, clients, conn >>

\* lines 28-34: take the read guard; no manager: NotConnected, else call
\* manager.send_message with the guard held
CmdSendMessageLock(t) ==
    /\ task[t].pc = "lock"
    /\ ReadLockFree
    /\ IF network_manager = 0
       THEN /\ ret' = [op |-> "cmd_send_message", m |-> 0, res |-> "NotConnected"]
            /\ task' = [task EXCEPT ![t] = IdleTask]
            /\ UNCHANGED lock
       ELSE /\ task' = [task EXCEPT ![t].pc = "send", ![t].m = network_manager]
            /\ lock' = [lock EXCEPT !.readers = @ \cup {t}]
            /\ ret' = NoRet
    /\ UNCHANGED << codec, mgr, chan, stats, left, network_manager, listener, clients, conn >>

Commands ==
    \/ \E t \in Tasks, port_arg \in PortArgs : CmdStartServerBegin(t, port_arg)
    \/ \E t \in Tasks : CmdStartServerFinish(t)
    \/ \E t \in Tasks, address \in Addresses, port \in Ports :
          CmdConnectBegin(t, address, port)
    \/ \E t \in Tasks : CmdConnectFinish(t)
    \/ \E t \in Tasks : CmdStopServer(t)
    \/ \E t \in Tasks : CmdDisconnect(t)
    \/ \E t \in Tasks, content \in Contents, stored \in BOOLEAN :
          CmdSendMessageStore(t, content, stored)
    \/ \E t \in Tasks : CmdSendMessageLock(t)

Next ==
    \/ Commands
    \/ \E t \in Tasks : SendMessageComplete(t)
    \/ ServerTasks
    \/ Peers

Spec == Init /\ [][Next]_vars

\* the tokio runtime runs every task that can run, and a command suspended
\* in bind, in connect or on the lock goes on when it can
FairSpec ==
    /\ Spec
    /\ TaskFairness
    /\ \A t \in Tasks :
          /\ WF_vars(CmdStartServerFinish(t))
          /\ WF_vars(CmdConnectFinish(t))
          /\ WF_vars(CmdSendMessageLock(t))

(***************************************************************************)
(* Properties.                                                             *)
(***************************************************************************)
Role(m) == mgr[m].connection_type
Messages(queue) == {queue[i] : i \in 1..Len(queue)}
Occurrences(queue, message) == Cardinality({i \in 1..Len(queue) : queue[i] = message})

\* C1: in every reachable state a manager holds at most one session: its role
\* is idle, server or client; server info is present iff the role is server,
\* client info iff it is client, and the two are never present together.
C1_OneSession ==
    \A m \in Managers :
        /\ Role(m) \in {"None", "Server", "Client"}
        /\ (mgr[m].server_info # NoInfo) <=> (Role(m) = "Server")
        /\ (mgr[m].client_info # NoInfo) <=> (Role(m) = "Client")
        /\ ~(mgr[m].server_info # NoInfo /\ mgr[m].client_info # NoInfo)

\* a start_server has just succeeded: the manager is a server with its info
C1_Witness ==
    /\ ret.op = "start_server"
    /\ ret.res = "Ok"
    /\ Role(ret.m) = "Server"
    /\ mgr[ret.m].server_info # NoInfo
    /\ mgr[ret.m].client_info = NoInfo

\* C2: start_server or connect_to_server called on a manager with an active
\* session returns AlreadyConnected and changes nothing: not the manager (role,
\* info), not the listeners, the client tables, the sockets or the channel.
C2_AlreadyConnected ==
    [][(/\ ret'.op \in {"start_server", "connect_to_server"}
        /\ Role(ret'.m) # "None")
       => /\ ret'.res = "AlreadyConnected"
          /\ mgr' = mgr
          /\ listener' = listener
          /\ clients' = clients
          /\ conn' = conn
          /\ chan' = chan]_vars

\* the second start_server on a running server has just failed
C2_Witness ==
    /\ ret.op = "start_server"
    /\ ret.res = "AlreadyConnected"
    /\ Role(ret.m) = "Server"

\* C3: stop_server or disconnect called on an idle manager returns
\* NotConnected and the manager stays as it was, idle.
C3_NotConnected ==
    [][(/\ ret'.op \in {"stop_server", "disconnect"}
        /\ Role(ret'.m) = "None")
       => /\ ret'.res = "NotConnected"
          /\ mgr' = mgr
          /\ mgr'[ret'.m].connection_type = "None"]_vars

\* a disconnect on an idle manager has just failed
C3_Witness ==
    /\ ret.op = "disconnect"
    /\ ret.res = "NotConnected"
    /\ Role(ret.m) = "None"

\* C4: a start_server or connect_to_server command takes the active slot only
\* when the slot is empty, and a taken slot is emptied only by a stop_server or
\* disconnect command that succeeds: between two takes of the slot lies a
\* successful stop or disconnect.
C4_OneTakePerSession ==
    [][/\ (network_manager' # network_manager /\ network_manager' # 0)
          => network_manager = 0
       /\ (network_manager # 0 /\ network_manager' # network_manager)
          => /\ ret'.op \in {"cmd_stop_server", "cmd_disconnect"}
             /\ ret'.res = "Ok"]_vars

\* C5: a send_message on a manager with no active session returns
\* NotConnected and puts nothing on the channel.
C5_SendNeedsSession ==
    [][\A t \in Tasks :
          (/\ task[t].pc = "send"
           /\ task'[t].pc = "idle"
           /\ Role(task[t].m) = "None")
          => /\ ret'.res = "NotConnected"
             /\ chan' = chan]_vars

\* C6: the channel never holds more than its capacity; a send_message whose
\* channel is full stays blocked; a send_message that returns Ok found space
\* and appended its message, which is then on the channel exactly once.
C6_BoundedNoDrop ==
    /\ [](\A m \in Managers : Len(chan[m]) <= ChannelCapacity)
    /\ [][\A t \in Tasks :
             /\ (task[t].pc = "send" /\ ChannelFull(task[t].m)
                                     /\ ~ChannelClosed(task[t].m))
                => task'[t] = task[t]
             /\ (task[t].pc = "send" /\ task'[t].pc = "idle" /\ ret'.res = "Ok")
                => /\ Len(chan[task[t].m]) < ChannelCapacity
                   /\ chan'[task[t].m] = Append(chan[task[t].m], task[t].message)
                   /\ Occurrences(chan'[task[t].m], task[t].message) = 1]_vars

\* with a session active, one sent message is on the full channel and another
\* send_message waits for space
C6_Witness ==
    \E t \in Tasks :
        /\ task[t].pc = "send"
        /\ Role(task[t].m) # "None"
        /\ ChannelFull(task[t].m)
        /\ \E message \in Messages(chan[task[t].m]) : IsLocal(message)

\* C7: with a session active, a message send_message has put on the channel
\* is eventually taken off it (to be written to the peer socket), unless the
\* session ends first.
C7_EventuallyTransmitted ==
    \A m \in Managers :
        (Role(m) # "None" /\ \E message \in Messages(chan[m]) : IsLocal(message))
        ~> (Role(m) = "None" \/ ~\E message \in Messages(chan[m]) : IsLocal(message))

\* C8: when a client manager has connected to a listening server manager and
\* its send_message("hello") has returned, the server eventually has that
\* message on its output channel and has counted it in messages_received,
\* unless one of the two sessions is ended first.
C8_EndToEnd ==
    \A mc \in Managers, ms \in Managers :
        (/\ mc # ms
         /\ Role(mc) = "Client"
         /\ Role(ms) = "Server"
         /\ \E c \in Conns : conn[c].origin = mc /\ listener[conn[c].port] = ms
         /\ \E message \in Messages(chan[mc]) :
               IsLocal(message) /\ message.content = "hello")
        ~> \/ /\ Messages(chan[ms]) \cap Messages(chan[mc]) # {}
              /\ stats[ms].messages_received >= 1
           \/ Role(mc) # "Client"
           \/ Role(ms) # "Server"

\* the messages of a queue that came from the peer of connection c
FromConn(queue, c) == SelectSeq(queue, LAMBDA message : message.sender_id = c)

\* C9: the messages a read loop has delivered to the output channel are the
\* first frames its peer wrote, in the order written: the i-th message on the
\* channel from a socket is the message of the i-th frame written to it; none
\* is there twice, none is skipped.
C9_InOrder ==
    \A m \in Managers, c \in Conns :
        \A i \in 1..Len(FromConn(chan[m], c)) :
            FromConn(chan[m], c)[i] = PeerMessage(c, i)

\* two frames of one socket have been delivered
C9_Witness ==
    \E m \in Managers, c \in Conns : Len(FromConn(chan[m], c)) >= 2

\* C10: the step that ends a socket's read loop leaves the listener with its
\* accept loop, leaves every other socket and its read loop as they were, and
\* takes out of the client tables no record but that socket's.
C10_OnlyThatPeer ==
    [][\A c \in Conns :
          (conn[c].pc \notin {"free", "done"} /\ conn'[c].pc = "done")
          => /\ listener' = listener
             /\ \A d \in Conns \ {c} : conn'[d] = conn[d]
             /\ \A port \in Ports :
                   clients'[port] = {r \in clients[port] : r.id # c}]_vars

\* one socket's read loop has ended while another peer, accepted by the
\* accept loop, has its record in the table
C10_Witness ==
    \E c \in Conns, d \in Conns :
        /\ c # d
        /\ conn[c].pc = "done"
        /\ conn[d].pc = "take"
        /\ listener[conn[d].port] # 0
        /\ \E r \in clients[conn[d].port] : r.id = d

\* the read loop of socket c has started and has not ended
LoopRunning(c) == conn[c].pc \in {"take", "recv", "send", "stats", "reinsert"}
InTable(c) == \E r \in clients[conn[c].port] : r.id = c

\* C11: the record of a peer is in the client table of its server at every
\* moment from its accept until its read loop ends, also while the loop waits
\* in receive_message for the next frame, and is out of it once the loop ended.
C11_RecordWhileLoopRuns ==
    \A c \in Conns :
        /\ LoopRunning(c) => InTable(c)
        /\ conn[c].pc = "done" => ~InTable(c)

\* the messages on the channel of manager m that read loops forwarded
Forwarded(m) == SelectSeq(chan[m], LAMBDA message : ~IsLocal(message))
\* the read loops of manager m that forwarded a message not yet counted
Uncounted(m) == {c \in Conns : conn[c].pc = "stats" /\ listener[conn[c].port] = m}

\* C12: messages_received of a manager plus the number of its read loops that
\* stand between forwarding a message and counting it equals the number of
\* messages forwarded to its channel; a step leaves the counter as it is or
\* adds 1 to it, and adds 1 only as the stats update of such a read loop.
C12_CountsForwarded ==
    /\ [](\A m \in Managers :
            stats[m].messages_received + Cardinality(Uncounted(m))
                = Len(Forwarded(m)))
    /\ [][\A m \in Managers :
             \/ stats'[m] = stats[m]
             \/ /\ stats'[m].messages_received = stats[m].messages_received + 1
                /\ \E c \in Uncounted(m) : conn'[c].pc = "reinsert"]_vars

\* one forwarded message has been counted and another read loop of the same
\* server has forwarded one it has not counted yet
C12_Witness ==
    \E m \in Managers :
        /\ stats[m].messages_received >= 1
        /\ Uncounted(m) # {}
        /\ Len(Forwarded(m)) = stats[m].messages_received + 1

\* C13: a read loop forwards a message whose encrypted flag is set only when
\* the connection holds the shared secret its MAC was verified and its payload
\* decrypted with; otherwise the step that finishes the frame ends the loop,
\* removes the record and leaves the channel as it was.
C13_EncryptedNeedsSecret ==
    [][\A c \in Conns :
          (/\ conn[c].pc = "recv"
           /\ conn'[c].pc # "recv"
           /\ Len(conn[c].buf) >= 8
           /\ MessageHeader_from_bytes(SubSeq(conn[c].buf, 1, 8)).ok
           /\ MessageHeader_from_bytes(SubSeq(conn[c].buf, 1, 8)).header.flags % 2 = 1
           /\ shared_secret(conn[c].client) = "None")
          => /\ conn'[c].pc = "done"
             /\ ~InTable(c)']_vars

\* C14: while a manager is a client, after its connect_to_server succeeded
\* and before a disconnect, it holds one socket to the server, open at the
\* client's end (so that a read loop can run on it).
C14_ClientSocketOpen ==
    \A m \in Managers :
        Role(m) = "Client"
        => Cardinality({c \in Conns : conn[c].origin = m /\ conn[c].peer = "open"}) = 1

\* C15: a connect_to_server on an idle manager that does not succeed returns
\* a Network error to its caller, in the one step of its one attempt, and
\* leaves the manager as it was, idle.
C15_ConnectFailureIsAnError ==
    [][(/\ ret'.op = "connect_to_server"
        /\ Role(ret'.m) = "None"
        /\ ret'.res # "Ok")
       => /\ ret'.res = "Network"
          /\ mgr' = mgr
          /\ conn' = conn]_vars

\* the accept loop a manager started is running: it owns a listener
AcceptLoopRunning(m) == \E port \in Ports : listener[port] = m

\* the read loops of the sockets the accept loop of m accepted that are running
ReadLoopsRunning(m) == {c \in Conns : LoopRunning(c) /\ listener[conn[c].port] = m}

\* C16: once a manager's session has been stopped (the manager is idle again
\* while tasks of its session remain), its accept loop eventually ends, and so
\* does every read loop of the session whose socket the peer has closed.
C16_LoopsEnd ==
    \A m \in Managers :
        (Role(m) = "None" /\ AcceptLoopRunning(m))
        ~> (/\ ~AcceptLoopRunning(m)
            /\ \A c \in ReadLoopsRunning(m) : conn[c].peer = "open")

\* what a reader gets out of the bytes buf by receive_message after
\* receive_message: the messages of the complete frames and the bytes left
RECURSIVE DecodeAll(_)
DecodeAll(buf) ==
    LET r == receive_message(buf, FALSE)
    IN  IF r.status = "ok"
        THEN [messages |-> << r.message >> \o DecodeAll(r.rest).messages,
              rest |-> DecodeAll(r.rest).rest]
        ELSE [messages |-> << >>, rest |-> buf]

C18_OnePeer ==
    \A port \in Ports :
        /\ Cardinality(clients[port]) <= max_clients
        /\ Cardinality({c \in Conns : LoopRunning(c) /\ conn[c].port = port})
              <= max_clients

\* C19: the header codec round-trips: for every kind byte, flags byte and
\* length in 0..2^32-1, from_bytes applied to the 8 bytes that to_bytes wrote
\* for MessageHeader::new(kind, length, flags) succeeds and returns a header
\* equal to the original; the 8 bytes are 8 bytes, each in 0..255.
C19_HeaderRoundTrip ==
    /\ codec.pc \in {"bytes", "decoded"} =>
          /\ Len(codec.bytes) = 8
          /\ \A i \in 1..8 : codec.bytes[i] \in Byte
    /\ codec.pc = "decoded" =>
          /\ codec.decoded.ok
          /\ codec.decoded.header = codec.header

\* a header with the largest length and all flag bits set went through
C19_Witness ==
    /\ codec.pc = "decoded"
    /\ codec.header.length = U32Max
    /\ codec.header.flags = 255
    /\ codec.decoded.header.length = U32Max

\* C20: a header whose version byte is not PROTOCOL_VERSION is refused:
\* from_bytes fails with a Protocol error and no header, receive_message
\* returns the error and no message, and the read loop that received it ends
\* without handing a message to the channel or counting one.
C20_BadVersionRejected ==
    [][\A c \in Conns :
          (/\ ReadLoopReceive(c)
           /\ Len(conn[c].buf) >= 8
           /\ conn[c].buf[1] # PROTOCOL_VERSION)
          => /\ MessageHeader_from_bytes(SubSeq(conn[c].buf, 1, 8))
                   = [ok |-> FALSE, error |-> "Protocol", header |-> NoHeader]
             /\ ReceiveOn(c).status = "err"
             /\ ReceiveOn(c).message = NoMessage
             /\ conn'[c].pc = "done"
             /\ conn'[c].message = NoMessage
             /\ chan' = chan
             /\ stats' = stats]_vars

\* a read loop has ended on a frame of another version: its header was
\* consumed, its payload is still in the socket and nothing was delivered
C20_Witness ==
    \E c \in Conns :
        /\ conn[c].pc = "done"
        /\ conn[c].origin = 0
        /\ Len(conn[c].buf) = Len(serde_to_vec(PeerMessage(c, 1)))
        /\ conn[c].buf[1] = JsonOpen
        /\ ServerOf(c) \in Managers
        /\ chan[ServerOf(c)] = << >>
        /\ stats[ServerOf(c)].messages_received = 0

\* C21: a header that declares more payload than max_message_size is refused
\* before a payload buffer is allocated or a payload byte is read: a read
\* loop whose socket holds such a header gets an error from receive_message,
\* it is never suspended waiting for the payload.
C21_OversizedRejected ==
    \A c \in Conns :
        (/\ conn[c].pc = "recv"
         /\ Len(conn[c].buf) >= 8
         /\ conn[c].buf[1] = PROTOCOL_VERSION
         /\ usize_lt_u32(max_message_size,
                         u32_from_be_bytes(SubSeq(conn[c].buf, 5, 8))))
        => /\ ~MessageHeader_from_bytes(SubSeq(conn[c].buf, 1, 8)).ok
           /\ ReceiveOn(c).status = "err"

\* C22: the length of a frame's header is the number of payload bytes that
\* follow it, and from_bytes refuses a buffer that holds fewer or more
\* payload bytes than its header declares.
C22_LengthIsPayloadLength ==
    /\ (codec.pc = "bytes" /\ codec.extra = 0) =>
          u32_from_be_bytes(SubSeq(codec.bytes, 5, 8)) = u32(Len(codec.bytes) - 8)
    /\ (codec.pc = "decoded" /\ codec.extra = 0) =>
          /\ codec.decoded.ok
          /\ ProtocolMessage_to_message(codec.decoded)
                = [ok |-> TRUE, message |-> codec.message]
    /\ (codec.pc = "decoded" /\ codec.extra # 0) => ~codec.decoded.ok

\* C23: a set of message flags (encrypted, compressed, chunked, ack-required,
\* in any combination) converted to its byte and back is the same set.
C23_FlagsRoundTrip ==
    (codec.pc = "decoded" /\ codec.origin = "flags")
    => FlagsOf(codec.decoded) = codec.flags

\* C24: decrypting what encrypt produced, with the same encryption key and
\* the same MAC key, returns the original payload, for every payload and
\* every key.
C24_DecryptOfEncrypt ==
    (/\ codec.pc = "opened"
     /\ codec.sm = codec.sealed
     /\ codec.opened_with = << codec.encryption_key, codec.mac_key >>)
    => /\ codec.opened.ok
       /\ codec.opened.plaintext = codec.plaintext

\* a payload of two bytes was sealed and opened with the same keys, and the
\* sealed bytes differ from the payload
C24_Witness ==
    /\ codec.pc = "opened"
    /\ codec.sm = codec.sealed
    /\ codec.opened_with = << codec.encryption_key, codec.mac_key >>
    /\ Len(codec.plaintext) = 2
    /\ codec.opened.plaintext = codec.plaintext
    /\ codec.encryption_key # codec.mac_key
    /\ SubSeq(codec.sm.encrypted_data, 13, 14) # codec.plaintext

\* C25: the MAC is verified before any decryption attempt: a secure message
\* of which one bit, of the encrypted bytes or of the MAC, differs from what
\* encrypt produced fails to decrypt with the MAC-verification error, under
\* any keys, and the cipher's decrypt step does not run.
C25_MacBeforeDecrypt ==
    (codec.pc = "opened" /\ codec.sm # codec.sealed)
    => /\ ~codec.opened.ok
       /\ codec.opened.error = "MAC verification failed"
       /\ ~codec.opened.cipher_ran

\* a message with one bit of its ciphertext changed, and the MAC untouched,
\* was refused under the right keys
C25_Witness ==
    /\ codec.pc = "opened"
    /\ codec.sm.encrypted_data # codec.sealed.encrypted_data
    /\ codec.sm.mac = codec.sealed.mac
    /\ codec.opened_with = << codec.encryption_key, codec.mac_key >>
    /\ codec.opened.error = "MAC verification failed"

\* C30: the secure-message container round-trips: to_bytes writes a 4-byte
\* big-endian length, the encrypted bytes and the 32-byte MAC, and from_bytes
\* of those bytes returns the secure message they were written from.
C30_ContainerRoundTrip ==
    /\ codec.pc \in {"bytes", "parsed"} =>
          codec.bytes = u32_to_be_bytes(u32(Len(codec.sm.encrypted_data)))
                        \o codec.sm.encrypted_data \o codec.sm.mac
    /\ codec.pc = "parsed" =>
          codec.parsed = [status |-> "Ok", sm |-> codec.sm]

\* the encryption key and the MAC key of two secrets are the same
SameKeys(a, b) == a.encryption_key = b.encryption_key /\ a.mac_key = b.mac_key

\* C26: for two generated key pairs A and B, the encryption key and the MAC
\* key A derives from B's public key are those B derives from A's public key:
\* when the manager derived the secret of a peer from the remote pair's
\* public key, and the remote peer derived its secret from the public key of
\* the pair the manager used, both hold the same two keys.
C26_SameKeysBothSides ==
    LET p == codec.remote.peer_id
    IN  (/\ codec.kxm.shared_secrets[p] # NoSecret
         /\ codec.remote.shared_secret # NoSecret
         /\ codec.used[p].peer_public = codec.remote.used.own_public
         /\ codec.remote.used.peer_public = codec.used[p].own_public)
        => /\ SameKeys(codec.kxm.shared_secrets[p], codec.remote.shared_secret)
           /\ Len(codec.remote.shared_secret.encryption_key) = 32
           /\ Len(codec.remote.shared_secret.mac_key) = 32
           /\ codec.remote.shared_secret.encryption_key
                 # codec.remote.shared_secret.mac_key

\* both sides derived their secret from each other's public key, the two
\* pairs having different private keys
C26_Witness ==
    LET p == codec.remote.peer_id
    IN  /\ codec.kxm.shared_secrets[p] # NoSecret
        /\ codec.remote.shared_secret # NoSecret
        /\ codec.used[p].peer_public = codec.remote.used.own_public
        /\ codec.remote.used.peer_public = codec.used[p].own_public
        /\ codec.used[p].own_public # codec.remote.used.own_public
        /\ SameKeys(codec.kxm.shared_secrets[p], codec.remote.shared_secret)

\* C27: the key pair stored for a peer is the one generate_key_pair handed
\* to the caller, public and private key, so a remote peer that derived its
\* secret from the handed public key holds the keys the manager derives for
\* that peer from the remote public key.
C27_StoredIsHanded ==
    /\ \A p \in PeerIds :
          (codec.handed[p] # NoKeyPair /\ codec.kxm.key_pairs[p] # NoKeyPair)
          => codec.kxm.key_pairs[p] = codec.handed[p]
    /\ LET p == codec.remote.peer_id
       IN  (/\ codec.kxm.shared_secrets[p] # NoSecret
            /\ codec.remote.shared_secret # NoSecret
            /\ codec.used[p].peer_public = codec.remote.used.own_public
            /\ codec.used[p].own_public = codec.kxm.key_pairs[p].public_key
            /\ codec.remote.used.peer_public = codec.handed[p].public_key)
           => SameKeys(codec.kxm.shared_secrets[p], codec.remote.shared_secret)

\* C29: key-exchange calls made out of sequence fail and change nothing:
\* perform_key_exchange for a peer without key pair and get_shared_secret
\* for a peer without secret return an error and leave the key pairs and
\* the secrets of the manager as they were.
C29_OutOfSequenceFails ==
    [][\A p \in PeerIds :
          /\ (/\ codec.kxm.key_pairs[p] = NoKeyPair
              /\ \E k \in PublicKeys : KXPerformKeyExchange(p, k))
             => /\ codec'.last = [op |-> "perform_key_exchange", res |-> "Err"]
                /\ codec'.kxm = codec.kxm
          /\ (codec.kxm.shared_secrets[p] = NoSecret /\ KXGetSharedSecret(p))
             => /\ codec'.last = [op |-> "get_shared_secret", res |-> "Err"]
                /\ codec'.kxm = codec.kxm]_vars

\* perform_key_exchange has failed for a peer without key pair while the
\* manager holds a key pair and a secret of the other peer
C29_Witness ==
    \E p, q \in PeerIds :
        /\ p # q
        /\ codec.last = [op |-> "perform_key_exchange", res |-> "Err"]
        /\ codec.kxm.key_pairs[p] = NoKeyPair
        /\ codec.kxm.shared_secrets[p] = NoSecret
        /\ codec.kxm.key_pairs[q] # NoKeyPair
        /\ codec.kxm.shared_secrets[q] # NoSecret

\* C28: the rotation flag follows the message counter: should_rotate_key is
\* false while fewer than max_messages_per_key messages were encrypted since
\* the engine was created or rotate_key was last called, and true from then
\* on; rotate_key sets the counter to 0, after which the flag is false.
C28_FlagFollowsCounter ==
    /\ should_rotate_key(codec.engine) <=> codec.since >= max_messages_per_key
    /\ codec.last = "should_rotate_key" =>
          (codec.flag <=> codec.since >= max_messages_per_key)
    /\ codec.last = "rotate_key" =>
          /\ codec.engine.key_rotation_counter = 0
          /\ ~should_rotate_key(codec.engine)

\* the flag was read as true at or past the threshold, then rotate_key was
\* called: the counter is 0 and the engine no longer asks for a rotation
C28_Witness ==
    /\ codec.last = "rotate_key"
    /\ codec.flag
    /\ codec.since = 0
    /\ codec.engine.key_rotation_counter = 0
    /\ ~should_rotate_key(codec.engine)


\* C40: SecureMessage::from_bytes never panics: for every byte string it
\* returns, and when the length declared in the first four bytes exceeds the
\* bytes that are there (or fewer than 36 bytes are given) it returns an
\* error.
C40_FromBytesNeverPanics ==
    codec.pc = "parsed" =>
        /\ codec.parsed.status \in {"Ok", "Err"}
        /\ (\/ Len(codec.bytes) < 4 + 32
            \/ usize_lt_u32(Len(codec.bytes) - 4 - 32, codec.declared))
              => codec.parsed.status = "Err"

\* C34: should_send_heartbeat answers false while less than the interval has
\* passed since the handler was created or update_heartbeat was last called,
\* and true once at least the interval has passed; right after
\* update_heartbeat the interval starts again, so the answer is false unless
\* the interval is zero.
C34_HeartbeatFollowsInterval ==
    /\ should_send_heartbeat(codec.handler, codec.now)
          <=> codec.since >= codec.interval_seconds * TicksPerSecond
    /\ codec.last = "should_send_heartbeat" =>
          (codec.flag <=> codec.since >= codec.interval_seconds * TicksPerSecond)
    /\ (codec.last = "update_heartbeat" /\ codec.interval_seconds > 0) =>
          ~should_send_heartbeat(codec.handler, codec.now)

\* one second after an update_heartbeat of a handler with an interval of one
\* second, should_send_heartbeat has answered true
C34_Witness ==
    /\ codec.last = "should_send_heartbeat"
    /\ codec.interval_seconds = 1
    /\ codec.updates = 1
    /\ codec.since = TicksPerSecond
    /\ codec.flag

\* C36: key rotation clears the need for it: in the state right after
\* rotate_all_keys returned, needs_key_rotation is false, whatever it was
\* before, because every expired secret was replaced.
C36_RotationClearsNeed ==
    codec.last.op = "rotate_all_keys" => ~KXM_needs_key_rotation(codec.kxm, codec.now)

\* C35: a session-control command (start_server, connect_to_server,
\* stop_server, disconnect) that returns an error leaves the active slot as it
\* was: the step in which such a command returns anything but Ok does not
\* change network_manager.  In particular a stop_server that returns
\* NotConnected on a client session leaves that session in the slot.
C35_ErrorLeavesSlot ==
    [][(/\ ret'.op \in {"cmd_start_server", "cmd_connect_to_server",
                        "cmd_stop_server", "cmd_disconnect"}
        /\ ret'.res # "Ok")
       => network_manager' = network_manager]_vars

\* C38: stop_server and disconnect wait for the write guard on the active
\* slot, which they get once every read guard is dropped.  A send_message
\* command holds a read guard while it sends; the claim is that it drops the
\* guard eventually, also when the channel is full, so that a stop_server or
\* disconnect issued meanwhile gets the slot and returns.
C38_TeardownNotBlocked ==
    \A t \in Tasks :
        (task[t].pc = "send" /\ t \in lock.readers) ~> (t \notin lock.readers)

\* C39: stopping a server releases its listening socket: a start_server
\* command whose port is held by no server session that is still active (the
\* port was never bound, or the session that bound it was stopped with
\* success) binds the port and returns Ok.
C39_PortReleasedByStop ==
    [][\A t \in Tasks :
          (/\ task[t].pc = "bind"
           /\ task'[t].pc = "idle"
           /\ LET holder == listener[PortOf(task[t].port)]
              IN  holder = 0 \/ mgr[holder].connection_type = "None")
          => ret'.res = "Ok"]_vars

\* C37: the output channel of a manager carries only what its read loops
\* decoded from frames of peer sockets: no message that a caller passed to
\* send_message of the manager is on the channel the read loops deliver to.
C37_OutputChannelOnlyReceived ==
    \A m \in Managers :
        \A message \in Messages(chan[m]) : ~IsLocal(message)

\* the entries of the list with server id id
EntriesOf(id) ==
    {i \in 1..Len(codec.discovered_servers) : codec.discovered_servers[i].id = id}

\* C31: when a call of discover_servers has received two ServerAnnounce
\* datagrams of one server id, its list holds exactly one entry of that id,
\* whose first-seen time (discovered_at) is when the first of them was
\* received and whose last_seen is when the last of them was received.
C31_OneEntryLastSeenLater ==
    \A id \in ServerIds :
        codec.heard[id].announces >= 2 =>
            /\ Cardinality(EntriesOf(id)) = 1
            /\ \A i \in EntriesOf(id) :
                  /\ codec.discovered_servers[i].discovered_at = codec.heard[id].first
                  /\ codec.discovered_servers[i].last_seen = codec.heard[id].last

\* C32: discover_servers returns, and no later than the timeout after it
\* began to listen: at no moment of the call has more than the timeout
\* passed since start_time.
C32_ReturnsWithinTimeout ==
    codec.now - codec.start_time <= codec.timeout

\* C33: once start_server_announcement has returned Ok, every ClientRequest
\* that arrives on the server's socket is eventually answered: a
\* ServerResponse carrying the server's own id and port is sent to the
\* address the request came from.
C33_RequestAnswered ==
    \A addr \in RequesterAddrs :
        (/\ codec.res = "Ok"
         /\ \E i \in 1..Len(codec.inbox) :
               /\ codec.inbox[i].from = addr
               /\ codec.inbox[i].message.message_type = "ClientRequest")
        ~> (\E j \in 1..Len(codec.sent) :
               /\ codec.sent[j].to = addr
               /\ codec.sent[j].message.message_type = "ServerResponse"
               /\ codec.sent[j].message.server_id = codec.server_id
               /\ codec.sent[j].message.server_port = codec.server_port)
====
